---- MODULE Spec2Model ----
(***************************************************************************)
(* Model of the energy marketplace server (server/routes.ts,               *)
(* server/storage.ts, server/services/blockchain.ts).                      *)
(*                                                                         *)
(* Every HTTP handler is an async function: it runs without interruption   *)
(* up to an `await` on a storage or blockchain call and other handlers run *)
(* while it waits.  A handler is therefore modelled as a chain of steps,   *)
(* one per awaited storage access; the synchronous code before an access   *)
(* and the tests made on its result belong to the step of that access.     *)
(* Decimal columns hold integer numbers of the smallest unit, so           *)
(* parseFloat / toString of a stored value keep its value.                 *)
(***************************************************************************)
EXTENDS Integers, Sequences, FiniteSets, TLC

VARIABLES
    users,       \* table users: sequence of rows, the id is the index
    listings,    \* table energy_listings: sequence of rows, the id is the index
    txs,         \* table transactions: sequence of rows, the id is the index
    sessions,    \* session store: sid -> session data
    nextSid,     \* next unused session identifier
    nextNonce,   \* next unused nonce (uuidv4 never repeats)
    reqs,        \* per handler slot: the request in flight and its locals
    marketplaceContract,  \* whether MARKETPLACE_ADDRESS and the admin key are set
    validated,   \* history: per nonce, the verifications that succeeded with it
    compared,    \* history: sessions whose nonce a verification has compared
                 \* since it was issued
    retired,     \* history: identifiers that verifications were presented on
                 \* and then regenerated
    origAmount,  \* history: amountKWh of each listing when it was inserted
    base,        \* history: the ledger when the running batch of requests began
    batch,       \* history: requests answered since the ledger was last quiet
    lastRead,    \* history: what the last GET /api/listings reader could see
    market       \* the Marketplace contract on the chain: its listings, the
                 \* EnergyToken balances and the buyEnergy call in progress

vars == <<users, listings, txs, sessions, nextSid, nextNonce, reqs,
          marketplaceContract, validated, compared, retired, origAmount, base,
          batch, lastRead, market>>

authVars == <<sessions, nextSid, nextNonce, marketplaceContract, validated,
              compared, retired>>
ledgerVars == <<listings, txs, origAmount, base, batch, lastRead, market>>

(***************************************************************************)
(* Bounds of the model and constants of the program.                       *)
(***************************************************************************)
MaxAmount == 2      \* largest kWh amount a request body carries
MaxRate == 2        \* largest rate a request body carries
MaxListings == 1    \* listings inserted in one behaviour
MaxTx == 2          \* purchases started in one behaviour
MaxSid == 3         \* session identifiers issued in one behaviour
MaxNonce == 2       \* nonces issued in one behaviour
FundedEth == 3      \* an ETH balance the chain reports for a funded wallet
MaxOnChain == 2     \* listings created on the contract in one behaviour

INITIAL_GRANT == 1000   \* energyBalance of a new user
SEPOLIA == 11155111     \* the only accepted chain id

Slots == {1, 2}     \* request handlers that can be in flight together

(***************************************************************************)
(* Wallet addresses.  One 20-byte value has two renderings, the lowercase  *)
(* one and the EIP-55 mixed-case one; they are different strings.          *)
(***************************************************************************)
Keys == {"A", "B"}
Casings == {"lower", "checksum"}
Addresses == [key : Keys, cs : Casings]

toLowerCase(a) == [a EXCEPT !.cs = "lower"]

(***************************************************************************)
(* Rows and request-local values.                                          *)
(***************************************************************************)
NoUser == [id |-> 0, walletAddress |-> [key |-> "none", cs |-> "lower"],
           energyBalance |-> 0, ethBalance |-> 0, totalEarnings |-> 0,
           isNewUser |-> FALSE]

NoListing == [id |-> 0, sellerId |-> 0, amountKWh |-> 0, ratePerKWh |-> 0,
              totalValue |-> 0, isActive |-> FALSE, blockchainTxHash |-> "none"]

NoBody == [none |-> TRUE]

IdleReq == [pc |-> "idle", op |-> "none", uid |-> 0, body |-> NoBody,
            sid |-> 0, user |-> NoUser,
            listing |-> NoListing, buyer |-> NoUser, seller |-> NoUser,
            txHash |-> "none", ext |-> "none", writes |-> 0,
            status |-> 0, err |-> "none"]

\* res.status(s).json(...): the handler ends
Respond(l, s, e) == [l EXCEPT !.pc = "idle", !.status = s, !.err = e]

\* what stays of an answered request: the answer
Residue(l) == [IdleReq EXCEPT !.op = l.op, !.status = l.status]

\* the ledger as one value
LedgerOf(u, ls, t) == [users |-> u, listings |-> ls, txs |-> t]
Ledger == LedgerOf(users, listings, txs)

(***************************************************************************)
(* JavaScript values of the `amount` body field: absent, a JSON number or  *)
(* a JSON string.  `!amount` is true of undefined, of the number 0 and of  *)
(* the empty string, and of no other value.                                *)
(***************************************************************************)
AmountVals == (0 - MaxAmount)..MaxAmount
AmountInputs == {[t |-> "undefined", v |-> 0], [t |-> "number", v |-> 0]}
                \cup {[t |-> "string", v |-> v] : v \in AmountVals}

Truthy(a) == /\ a.t # "undefined"
             /\ ~(a.t = "number" /\ a.v = 0)

parseFloat(a) == a.v

(***************************************************************************)
(* server/storage.ts, class DatabaseStorage                                *)
(***************************************************************************)
getUser(L, id) ==
    IF id \in 1..Len(L.users) THEN L.users[id] ELSE NoUser

\* WHERE wallet_address = $1 compares the two strings exactly
getUserByWalletAddress(L, walletAddress) ==
    IF \E i \in 1..Len(L.users) : L.users[i].walletAddress = walletAddress
    THEN L.users[CHOOSE i \in 1..Len(L.users) :
                     L.users[i].walletAddress = walletAddress]
    ELSE NoUser

createUser(L, insertUser) ==
    [L EXCEPT !.users = Append(@, [insertUser EXCEPT !.id = Len(L.users) + 1])]

\* an update without its WHERE clause: every row takes the new values
updateUserEveryRow(L, id, updates) ==
    [L EXCEPT !.users =
        [i \in DOMAIN @ |->
            [f \in DOMAIN @[i] |->
                IF f \in DOMAIN updates THEN updates[f] ELSE @[i][f]]]]

updateUser(L, id, updates) ==
    IF id \in 1..Len(L.users)
    THEN [L EXCEPT !.users[id] =
            [f \in DOMAIN @ |-> IF f \in DOMAIN updates THEN updates[f] ELSE @[f]]]
    ELSE L

getEnergyListing(L, id) ==
    IF id \in 1..Len(L.listings) THEN L.listings[id] ELSE NoListing

getActiveEnergyListings(L) ==
    {i \in 1..Len(L.listings) : L.listings[i].isActive}

createEnergyListing(L, insertListing) ==
    [L EXCEPT !.listings =
        Append(@, [insertListing EXCEPT !.id = Len(L.listings) + 1])]

updateEnergyListing(L, id, updates) ==
    IF id \in 1..Len(L.listings)
    THEN [L EXCEPT !.listings[id] =
            [f \in DOMAIN @ |-> IF f \in DOMAIN updates THEN updates[f] ELSE @[f]]]
    ELSE L

\* SET is_active = false: no other column is written
deactivateEnergyListing(L, id) ==
    IF id \in 1..Len(L.listings)
    THEN [L EXCEPT !.listings[id].isActive = FALSE]
    ELSE L

createTransaction(L, insertTransaction) ==
    [L EXCEPT !.txs = Append(@, [insertTransaction EXCEPT !.id = Len(L.txs) + 1])]

(***************************************************************************)
(* server/services/blockchain.ts                                           *)
(***************************************************************************)
\* what happens when buyEnergy is called: without a contract handle no call
\* is made; with one the transaction is confirmed or the call throws
ExtOutcomes == IF marketplaceContract THEN {"confirmed", "failed"}
               ELSE {"unconfigured"}

\* BlockchainService.buyEnergy: the hash of the confirmed transaction, and a
\* made-up hash both in mock mode and when the call throws (the catch block)
BlockchainBuyEnergy(o) == IF o = "confirmed" THEN "chain" ELSE "mock"

\* BlockchainService.getEthBalance: the balance read, and 0 when the read throws
getEthBalance(ok, balance) == IF ok THEN balance ELSE 0

\* BlockchainService.getEnergyBalance: the balance read, and 1000 without a
\* token contract handle or when the read throws
getEnergyBalance(ok, balance) == IF ok THEN balance ELSE 1000

\* what happens when mintInitialTokens is called: without a token contract or
\* an admin wallet no call is made; with them the mint is confirmed or throws
MintOutcomes == {"unconfigured", "confirmed", "failed"}

\* BlockchainService.mintInitialTokens: the hash of the confirmed mint, and a
\* made-up hash both when no call is made and when the call throws
mintInitialTokens(o) == IF o = "confirmed" THEN "chain" ELSE "mock"

\* BlockchainService.createListing: makes no call and returns a made-up hash
BlockchainCreateListing == "mock"

\* BlockchainService.cancelListing: makes no call and returns a made-up hash
BlockchainCancelListing == "mock"


(***************************************************************************)
(* contracts/Marketplace.sol with its EnergyToken.  A call is a function   *)
(* of the contract's state c, the sender and the arguments; a call that    *)
(* reverts leaves c as it was.  Amounts are uint256 and the arithmetic of  *)
(* Solidity 0.8 is checked: a subtraction below zero reverts.              *)
(***************************************************************************)
Wallets == Keys          \* the accounts that hold tokens and make calls
This == "this"           \* address(this), the contract's own account

NoCall == [phase |-> "none"]

NoMarketListing == [id |-> 0, seller |-> "none", amountKWh |-> 0,
                    ratePerKWh |-> 0, totalValue |-> 0, active |-> FALSE]

\* the contract as deployed, each wallet holding MaxAmount tokens
Deployed ==
    [listings |-> <<>>, nextListingId |-> 1,
     token |-> [a \in Wallets \cup {This} |-> IF a = This THEN 0 ELSE MaxAmount],
     call |-> NoCall]

\* listings[listingId]: a mapping answers the zero struct for an unused key
ListingAt(c, listingId) ==
    IF listingId \in 1..Len(c.listings) THEN c.listings[listingId]
    ELSE NoMarketListing

\* function createListing(uint256 amountKWh, uint256 ratePerKWh) external;
\* approved: the sender's allowance to the contract covers the amount
createListing(c, sender, amountKWh, ratePerKWh, approved) ==
    IF \/ amountKWh <= 0
       \/ ratePerKWh <= 0
       \/ c.token[sender] < amountKWh
       \/ ~approved
    THEN c
    ELSE [c EXCEPT !.token[sender] = @ - amountKWh,
                   !.token[This] = @ + amountKWh,
                   !.listings = Append(@,
                       [id |-> c.nextListingId, seller |-> sender,
                        amountKWh |-> amountKWh, ratePerKWh |-> ratePerKWh,
                        totalValue |-> amountKWh * ratePerKWh,
                        active |-> TRUE]),
                   !.nextListingId = @ + 1]

\* a cancelListing that closes the listing and leaves its amount standing
cancelListingKeepingAmount(c, sender, listingId) ==
    LET listing == ListingAt(c, listingId) IN
    IF \/ listing.seller # sender
       \/ ~listing.active
       \/ c.token[This] < listing.amountKWh
    THEN c
    ELSE [c EXCEPT !.token[This] = @ - listing.amountKWh,
                   !.token[listing.seller] = @ + listing.amountKWh,
                   !.listings[listingId].active = FALSE]

\* function cancelListing(uint256 listingId) external
cancelListing(c, sender, listingId) ==
    LET listing == ListingAt(c, listingId) IN
    IF \/ listing.seller # sender
       \/ ~listing.active
       \/ c.token[This] < listing.amountKWh
    THEN c
    ELSE [c EXCEPT !.token[This] = @ - listing.amountKWh,
                   !.token[listing.seller] = @ + listing.amountKWh,
                   !.listings[listingId].active = FALSE,
                   !.listings[listingId].amountKWh = 0,
                   !.listings[listingId].totalValue = 0]

\* the state a revert of the buyEnergy call in progress goes back to
Reverted(c) == [c.call.saved EXCEPT !.call = NoCall]

\* function buyEnergy(uint256 listingId, uint256 amount) external payable
\* nonReentrant, up to listing.seller.call{value: sellerAmount}(""): the
\* checks and the transfer of the tokens to the buyer; covers: msg.value is
\* at least the cost; exceeds: it is more
buyEnergy(c, sender, listingId, amount, covers, exceeds) ==
    LET listing == ListingAt(c, listingId) IN
    IF \/ c.call.phase # "none"
       \/ ~listing.active
       \/ listing.seller = sender
       \/ ~(amount > 0 /\ amount <= listing.amountKWh)
       \/ ~covers
       \/ c.token[This] < amount
    THEN c
    ELSE [c EXCEPT !.token[This] = @ - amount,
                   !.token[sender] = @ + amount,
                   !.call = [phase |-> "seller", listingId |-> listingId,
                             amount |-> amount, buyer |-> sender,
                             refund |-> exceeds, saved |-> c]]

\* buyEnergy from the return of the seller's call to the refund: the
\* listing is updated with the amount as it stands now
buyEnergyUpdate(c, success) ==
    LET listing == ListingAt(c, c.call.listingId)
        remaining == listing.amountKWh - c.call.amount
        updated == [c EXCEPT
                      !.listings[c.call.listingId].amountKWh = remaining,
                      !.listings[c.call.listingId].totalValue =
                          remaining * listing.ratePerKWh,
                      !.listings[c.call.listingId].active =
                          IF remaining = 0 THEN FALSE ELSE listing.active]
    IN  IF ~success \/ remaining < 0
        THEN Reverted(c)
        ELSE IF c.call.refund
        THEN [updated EXCEPT !.call.phase = "refund"]
        ELSE [updated EXCEPT !.call = NoCall]

\* buyEnergy from the return of the refund call to its end
buyEnergyEnd(c, refundSuccess) ==
    IF ~refundSuccess THEN Reverted(c) ELSE [c EXCEPT !.call = NoCall]

(***************************************************************************)
(* The session a request presents.                                         *)
(***************************************************************************)
NoSession == [nonce |-> 0, userId |-> 0, walletAddress |-> NoUser.walletAddress]

\* express-session: the stored session of the cookie's sid, or an empty one
LoadSession(sid) == IF sid \in DOMAIN sessions THEN sessions[sid] ELSE NoSession

\* the cookies a request may carry: none (0), a stored session's identifier,
\* or one that verification has regenerated
Cookies == {0} \cup DOMAIN sessions \cup retired

(***************************************************************************)
(* server/routes.ts: the three ledger handlers, step by step.  A step maps *)
(* the ledger L and the request's locals l to the new ledger and locals.   *)
(***************************************************************************)
Result(L, l) == [L |-> L, l |-> l]

\* const requireAuth = (req, res, next) => ...
requireAuth(l) == l.uid # 0

\* POST /api/transactions/buy, up to the answer of getEnergyListing
BuyStart(L, l) ==
    IF ~requireAuth(l)
    THEN Result(L, Respond(l, 401, "Authentication required"))
    ELSE IF l.body.listingId = 0 \/ ~Truthy(l.body.amount)
    THEN Result(L, Respond(l, 400, "Missing required fields"))
    ELSE LET listing == getEnergyListing(L, l.body.listingId) IN
         IF listing.id = 0 \/ ~listing.isActive
         THEN Result(L, Respond(l, 404, "Listing not found or inactive"))
         ELSE Result(L, [l EXCEPT !.listing = listing, !.pc = "b_buyer"])

\* const buyer = await storage.getUser(buyerId)
BuyGetBuyer(L, l) ==
    Result(L, [l EXCEPT !.buyer = getUser(L, l.uid), !.pc = "b_seller"])

totalCostOf(l) == parseFloat(l.body.amount) * l.listing.ratePerKWh

\* a handler that reads the seller and makes none of the checks
BuyGetSellerUnchecked(L, l) ==
    Result(L, [l EXCEPT !.seller = getUser(L, l.listing.sellerId),
                        !.pc = IF l.body.blockchainTxHash THEN "b_tx" ELSE "b_ext",
                        !.txHash = IF l.body.blockchainTxHash THEN "client"
                                   ELSE @])

\* const seller = await storage.getUser(listing.sellerId), then the checks
\* made on buyer, seller, cost and amount
BuyGetSeller(L, l) ==
    LET seller == getUser(L, l.listing.sellerId)
        amountNum == parseFloat(l.body.amount)
        totalCost == totalCostOf(l)
    IN  IF l.buyer.id = 0 \/ seller.id = 0
        THEN Result(L, Respond(l, 404, "User not found"))
        ELSE IF l.buyer.ethBalance < totalCost
        THEN Result(L, Respond(l, 400, "Insufficient ETH balance"))
        ELSE IF l.listing.amountKWh < amountNum
        THEN Result(L, Respond(l, 400, "Insufficient energy available"))
        ELSE IF l.body.blockchainTxHash
        THEN Result(L, [l EXCEPT !.seller = seller, !.txHash = "client",
                                 !.pc = "b_tx"])
        ELSE Result(L, [l EXCEPT !.seller = seller, !.pc = "b_ext"])

\* await blockchainService.buyEnergy(...): it returns a hash whatever happens
BuyExternal(L, l, o) ==
    Result(L, [l EXCEPT !.ext = o, !.txHash = BlockchainBuyEnergy(o),
                        !.pc = "b_tx"])

\* a handler that keeps one row only: the new row replaces the table
BuyCreateTxReplacing(L, l) ==
    LET made == createTransaction(LedgerOf(L.users, L.listings, <<>>),
                    [id |-> 0, buyerId |-> l.uid,
                     sellerId |-> l.listing.sellerId,
                     listingId |-> l.body.listingId,
                     amountKWh |-> parseFloat(l.body.amount),
                     ratePerKWh |-> l.listing.ratePerKWh,
                     totalCost |-> totalCostOf(l), transactionType |-> "buy",
                     blockchainTxHash |-> l.txHash, status |-> "completed"])
    IN  Result(made, [l EXCEPT !.writes = @ + 1, !.pc = "b_updBuyer"])

\* await storage.createTransaction({...})
BuyCreateTx(L, l) ==
    Result(createTransaction(L,
               [id |-> 0, buyerId |-> l.uid, sellerId |-> l.listing.sellerId,
                listingId |-> l.body.listingId,
                amountKWh |-> parseFloat(l.body.amount),
                ratePerKWh |-> l.listing.ratePerKWh,
                totalCost |-> totalCostOf(l), transactionType |-> "buy",
                blockchainTxHash |-> l.txHash, status |-> "completed"]),
           [l EXCEPT !.writes = @ + 1, !.pc = "b_updBuyer"])

\* await storage.updateUser(buyerId, {...}): computed from the buyer as read
BuyUpdateBuyer(L, l) ==
    Result(updateUser(L, l.uid,
               [ethBalance |-> l.buyer.ethBalance - totalCostOf(l),
                energyBalance |-> l.buyer.energyBalance
                                  + parseFloat(l.body.amount)]),
           [l EXCEPT !.writes = @ + 1, !.pc = "b_updSeller"])

\* await storage.updateUser(listing.sellerId, {...}): from the seller as read
BuyUpdateSeller(L, l) ==
    Result(updateUser(L, l.listing.sellerId,
               [ethBalance |-> l.seller.ethBalance + totalCostOf(l),
                energyBalance |-> l.seller.energyBalance
                                  - parseFloat(l.body.amount),
                totalEarnings |-> l.seller.totalEarnings + totalCostOf(l)]),
           [l EXCEPT !.writes = @ + 1, !.pc = "b_updListing"])

\* a handler whose listing update also writes isActive = true
BuyUpdateListingReactivating(L, l) ==
    LET remainingAmount == l.listing.amountKWh - parseFloat(l.body.amount)
        done == Respond([l EXCEPT !.writes = @ + 1], 200, "none")
    IN  IF remainingAmount <= 0
        THEN Result(deactivateEnergyListing(L, l.body.listingId), done)
        ELSE Result(updateEnergyListing(L, l.body.listingId,
                        [amountKWh |-> remainingAmount,
                         totalValue |-> remainingAmount
                                        * l.listing.ratePerKWh,
                         isActive |-> TRUE]),
                    done)

\* Update or deactivate listing, then res.json({ transaction })
BuyUpdateListing(L, l) ==
    LET remainingAmount == l.listing.amountKWh - parseFloat(l.body.amount)
        done == Respond([l EXCEPT !.writes = @ + 1], 200, "none")
    IN  IF remainingAmount <= 0
        THEN Result(deactivateEnergyListing(L, l.body.listingId), done)
        ELSE Result(updateEnergyListing(L, l.body.listingId,
                        [amountKWh |-> remainingAmount,
                         totalValue |-> remainingAmount
                                        * l.listing.ratePerKWh]),
                    done)

\* a handler that takes the owner from the request body
CancelStartByBody(L, l) ==
    IF ~requireAuth(l)
    THEN Result(L, Respond(l, 401, "Authentication required"))
    ELSE LET listing == getEnergyListing(L, l.body.id) IN
         IF listing.id = 0
         THEN Result(L, Respond(l, 404, "Listing not found"))
         ELSE IF listing.sellerId # l.body.sellerId
         THEN Result(L, Respond(l, 403, "Unauthorized"))
         ELSE Result(L, [l EXCEPT !.listing = listing, !.pc = "c_user"])

\* a handler that reads the listing before it looks at the session
CancelStartLookupFirst(L, l) ==
    LET listing == getEnergyListing(L, l.body.id) IN
    IF listing.id = 0
    THEN Result(L, Respond(l, 404, "Listing not found"))
    ELSE IF ~requireAuth(l)
    THEN Result(L, Respond(l, 401, "Authentication required"))
    ELSE IF listing.sellerId # l.uid
    THEN Result(L, Respond(l, 403, "Unauthorized"))
    ELSE Result(L, [l EXCEPT !.listing = listing, !.pc = "c_user"])

\* DELETE /api/listings/:id, up to the answer of getEnergyListing
CancelStart(L, l) ==
    IF ~requireAuth(l)
    THEN Result(L, Respond(l, 401, "Authentication required"))
    ELSE LET listing == getEnergyListing(L, l.body.id) IN
         IF listing.id = 0
         THEN Result(L, Respond(l, 404, "Listing not found"))
         ELSE IF listing.sellerId # l.uid
         THEN Result(L, Respond(l, 403, "Unauthorized"))
         ELSE Result(L, [l EXCEPT !.listing = listing, !.pc = "c_user"])

\* const user = await storage.getUser(req.session.userId), then the call of
\* blockchainService.cancelListing, which touches nothing
CancelGetUser(L, l) ==
    Result(L, [l EXCEPT !.seller = getUser(L, l.uid),
                        !.txHash = BlockchainCancelListing,
                        !.pc = "c_deactivate"])

\* await storage.deactivateEnergyListing(id), then res.json(...)
CancelDeactivate(L, l) ==
    Result(deactivateEnergyListing(L, l.body.id),
           Respond([l EXCEPT !.writes = @ + 1], 200, "none"))

\* a handler that lists for the seller the body names, whoever asks
CreateStartForAnyone(L, l) ==
    IF ~requireAuth(l)
    THEN Result(L, Respond(l, 401, "Authentication required"))
    ELSE LET user == getUser(L, l.body.sellerId) IN
         IF user.id = 0
         THEN Result(L, Respond(l, 404, "User not found"))
         ELSE IF user.energyBalance < l.body.amountKWh
         THEN Result(L, Respond(l, 400, "Insufficient energy balance"))
         ELSE Result(L, [l EXCEPT !.seller = user,
                                  !.txHash = IF l.body.blockchainTxHash
                                             THEN "client"
                                             ELSE BlockchainCreateListing,
                                  !.pc = "l_insert"])

\* POST /api/listings, up to the answer of getUser and the balance check;
\* the hash is the caller's or the one blockchainService.createListing makes
CreateStart(L, l) ==
    IF ~requireAuth(l)
    THEN Result(L, Respond(l, 401, "Authentication required"))
    ELSE IF l.body.sellerId # l.uid
    THEN Result(L, Respond(l, 403, "Cannot create listing for another user"))
    ELSE LET user == getUser(L, l.body.sellerId) IN
         IF user.id = 0
         THEN Result(L, Respond(l, 404, "User not found"))
         ELSE IF user.energyBalance < l.body.amountKWh
         THEN Result(L, Respond(l, 400, "Insufficient energy balance"))
         ELSE Result(L, [l EXCEPT !.seller = user,
                                  !.txHash = IF l.body.blockchainTxHash
                                             THEN "client"
                                             ELSE BlockchainCreateListing,
                                  !.pc = "l_insert"])

\* a handler that takes the listed energy from the seller's energyBalance
CreateInsertDebiting(L, l) ==
    LET made == createEnergyListing(L,
                    [id |-> 0, sellerId |-> l.body.sellerId,
                     amountKWh |-> l.body.amountKWh,
                     ratePerKWh |-> l.body.ratePerKWh,
                     totalValue |-> l.body.totalValue,
                     isActive |-> l.body.isActive,
                     blockchainTxHash |-> l.txHash])
    IN  Result(updateUser(made, l.body.sellerId,
                   [energyBalance |-> l.seller.energyBalance
                                      - l.body.amountKWh]),
               Respond([l EXCEPT !.writes = @ + 1], 200, "none"))

\* await storage.createEnergyListing({...}), then res.json({ listing })
CreateInsert(L, l) ==
    Result(createEnergyListing(L,
               [id |-> 0, sellerId |-> l.body.sellerId,
                amountKWh |-> l.body.amountKWh,
                ratePerKWh |-> l.body.ratePerKWh,
                totalValue |-> l.body.totalValue,
                isActive |-> l.body.isActive,
                blockchainTxHash |-> l.txHash]),
           Respond([l EXCEPT !.writes = @ + 1], 200, "none"))


(***************************************************************************)
(* Running one request alone, from its first step to its answer.           *)
(***************************************************************************)
StartPc(op) == CASE op = "buy" -> "b_start"
                 [] op = "cancel" -> "c_start"
                 [] op = "create" -> "l_start"

NewReq(op, uid, body) ==
    [IdleReq EXCEPT !.pc = StartPc(op), !.op = op, !.uid = uid, !.body = body]

Step(L, l) ==
    CASE l.pc = "b_start" -> BuyStart(L, l)
      [] l.pc = "b_buyer" -> BuyGetBuyer(L, l)
      [] l.pc = "b_seller" -> BuyGetSeller(L, l)
      [] l.pc = "b_ext" ->
            BuyExternal(L, l, IF l.ext = "none" THEN "unconfigured" ELSE l.ext)
      [] l.pc = "b_tx" -> BuyCreateTx(L, l)
      [] l.pc = "b_updBuyer" -> BuyUpdateBuyer(L, l)
      [] l.pc = "b_updSeller" -> BuyUpdateSeller(L, l)
      [] l.pc = "b_updListing" -> BuyUpdateListing(L, l)
      [] l.pc = "c_start" -> CancelStart(L, l)
      [] l.pc = "c_user" -> CancelGetUser(L, l)
      [] l.pc = "c_deactivate" -> CancelDeactivate(L, l)
      [] l.pc = "l_start" -> CreateStart(L, l)
      [] l.pc = "l_insert" -> CreateInsert(L, l)

RECURSIVE Run(_, _)
Run(L, l) == IF l.pc = "idle" THEN L
             ELSE LET s == Step(L, l) IN Run(s.L, s.l)

\* the ledger after request e (its operation, session user, body and the
\* outcome of its external call) ran alone on ledger L
Alone(L, e) == Run(L, [NewReq(e.op, e.uid, e.body) EXCEPT !.ext = e.ext])

\* the ledgers that running the requests of `done` one after the other gives
SerialResults(L, done) ==
    CASE Len(done) = 0 -> {L}
      [] Len(done) = 1 -> {Alone(L, done[1])}
      [] Len(done) = 2 -> {Alone(Alone(L, done[1]), done[2]),
                           Alone(Alone(L, done[2]), done[1])}

(***************************************************************************)
(* Ledger actions.                                                         *)
(***************************************************************************)
Quiet == \A s \in Slots : reqs[s].pc = "idle"

NoLedger == LedgerOf(<<>>, <<>>, <<>>)

\* one step of slot r with result res; fresh: the step is the request's first
Commit(r, res, fresh) ==
    LET answered == res.l.pc = "idle"
        b0 == IF fresh /\ Quiet THEN [n |-> 0, done |-> <<>>] ELSE batch
        base0 == IF fresh /\ Quiet THEN Ledger ELSE base
        b1 == IF fresh /\ ~answered THEN [b0 EXCEPT !.n = @ + 1] ELSE b0
        b2 == IF answered /\ res.l.writes > 0
              THEN [b1 EXCEPT !.done = Append(@,
                       [op |-> res.l.op, uid |-> res.l.uid,
                        body |-> res.l.body, ext |-> res.l.ext])]
              ELSE b1
    IN  /\ users' = res.L.users
        /\ listings' = res.L.listings
        /\ txs' = res.L.txs
        /\ reqs' = [reqs EXCEPT ![r] = IF answered THEN Residue(res.l) ELSE res.l]
        /\ origAmount' = IF Len(res.L.listings) > Len(listings)
                         THEN Append(origAmount,
                                  res.L.listings[Len(res.L.listings)].amountKWh)
                         ELSE origAmount
        /\ IF b2.n > 2
           THEN base' = NoLedger /\ batch' = [n |-> 3, done |-> <<>>]
           ELSE base' = base0 /\ batch' = b2
        /\ UNCHANGED <<authVars, lastRead, market>>

InFlight(op) == Cardinality({s \in Slots : reqs[s].op = op /\ reqs[s].pc # "idle"})

\* the bodies a POST /api/transactions/buy may carry
BuyBodies(listingIds, amounts, hashes) ==
    [listingId : listingIds, amount : amounts, blockchainTxHash : hashes]

DoBuyStart(r, cookies, bodies, maxTx) ==
    /\ reqs[r].pc = "idle"
    /\ Len(txs) + InFlight("buy") < maxTx
    /\ \E sid \in cookies, body \in bodies :
         Commit(r, BuyStart(Ledger,
                     NewReq("buy", LoadSession(sid).userId, body)), TRUE)

DoBuyGetBuyer(r) ==
    /\ reqs[r].pc = "b_buyer"
    /\ Commit(r, BuyGetBuyer(Ledger, reqs[r]), FALSE)

DoBuyGetSeller(r) ==
    /\ reqs[r].pc = "b_seller"
    /\ Commit(r, BuyGetSeller(Ledger, reqs[r]), FALSE)

DoBuyExternal(r) ==
    /\ reqs[r].pc = "b_ext"
    /\ \E o \in ExtOutcomes : Commit(r, BuyExternal(Ledger, reqs[r], o), FALSE)

DoBuyCreateTx(r) ==
    /\ reqs[r].pc = "b_tx"
    /\ Commit(r, BuyCreateTx(Ledger, reqs[r]), FALSE)

DoBuyUpdateBuyer(r) ==
    /\ reqs[r].pc = "b_updBuyer"
    /\ Commit(r, BuyUpdateBuyer(Ledger, reqs[r]), FALSE)

DoBuyUpdateSeller(r) ==
    /\ reqs[r].pc = "b_updSeller"
    /\ Commit(r, BuyUpdateSeller(Ledger, reqs[r]), FALSE)

DoBuyUpdateListing(r) ==
    /\ reqs[r].pc = "b_updListing"
    /\ Commit(r, BuyUpdateListing(Ledger, reqs[r]), FALSE)

DoCancelStart(r, cookies, maxListings) ==
    /\ reqs[r].pc = "idle"
    /\ \E sid \in cookies, id \in 1..maxListings :
         Commit(r, CancelStart(Ledger,
                     NewReq("cancel", LoadSession(sid).userId, [id |-> id])),
                TRUE)

DoCancelGetUser(r) ==
    /\ reqs[r].pc = "c_user"
    /\ Commit(r, CancelGetUser(Ledger, reqs[r]), FALSE)

DoCancelDeactivate(r) ==
    /\ reqs[r].pc = "c_deactivate"
    /\ Commit(r, CancelDeactivate(Ledger, reqs[r]), FALSE)

\* the bodies a POST /api/listings may carry; totalValue is a field of the
\* body: what the client computed (off = 0) or anything else
CreateBodies(sellerIds, amounts, rates, offs, actives, hashes) ==
    {[sellerId |-> sellerId, amountKWh |-> amountKWh, ratePerKWh |-> ratePerKWh,
      totalValue |-> amountKWh * ratePerKWh + off, isActive |-> isActive,
      blockchainTxHash |-> blockchainTxHash] :
        sellerId \in sellerIds, amountKWh \in amounts, ratePerKWh \in rates,
        off \in offs, isActive \in actives, blockchainTxHash \in hashes}

DoCreateStart(r, cookies, bodies, maxListings) ==
    /\ reqs[r].pc = "idle"
    /\ Len(listings) + InFlight("create") < maxListings
    /\ \E sid \in cookies, body \in bodies :
         Commit(r, CreateStart(Ledger,
                     NewReq("create", LoadSession(sid).userId, body)), TRUE)

DoCreateInsert(r) ==
    /\ reqs[r].pc = "l_insert"
    /\ Commit(r, CreateInsert(Ledger, reqs[r]), FALSE)

\* a purchase of which some writes are made and some are still to come
HalfApplied(r) ==
    /\ reqs[r].op = "buy"
    /\ reqs[r].pc \in {"b_updBuyer", "b_updSeller", "b_updListing"}

\* GET /api/listings (and the other GET handlers): one read of the tables
Read ==
    /\ lastRead' = IF \E r \in Slots : HalfApplied(r) THEN "partial" ELSE "whole"
    /\ UNCHANGED <<users, listings, txs, authVars, reqs, origAmount, base, batch,
                   market>>

(***************************************************************************)
(* The ledger specifications start where two users are signed in, each     *)
(* with a session: user 1 as the login created it, user 2 with the         *)
(* balances a reconciliation has last written.                             *)
(***************************************************************************)
EthReadings == {0, FundedEth}
EnergyReadings == {1, INITIAL_GRANT}

InitLedger ==
    /\ \E e \in EthReadings, g \in EnergyReadings :
         users = << [id |-> 1, walletAddress |-> [key |-> "A", cs |-> "lower"],
                     energyBalance |-> INITIAL_GRANT, ethBalance |-> 0,
                     totalEarnings |-> 0, isNewUser |-> TRUE],
                    [id |-> 2, walletAddress |-> [key |-> "B", cs |-> "lower"],
                     energyBalance |-> g, ethBalance |-> e,
                     totalEarnings |-> 0, isNewUser |-> TRUE] >>
    /\ listings = <<>>
    /\ txs = <<>>
    /\ sessions = (1 :> [nonce |-> 0, userId |-> 1,
                         walletAddress |-> [key |-> "A", cs |-> "lower"]])
               @@ (2 :> [nonce |-> 0, userId |-> 2,
                         walletAddress |-> [key |-> "B", cs |-> "lower"]])
    /\ nextSid = 3
    /\ nextNonce = 1
    /\ marketplaceContract \in BOOLEAN
    /\ reqs = [r \in Slots |-> IdleReq]
    /\ validated = [n \in 1..MaxNonce |-> 0]
    /\ compared = {}
    /\ retired = {}
    /\ origAmount = <<>>
    /\ base = Ledger
    /\ batch = [n |-> 0, done |-> <<>>]
    /\ lastRead = "whole"
    /\ market = Deployed

\* the steps every ledger specification shares
LedgerSteps(r) ==
    \/ DoBuyGetBuyer(r)
    \/ DoBuyGetSeller(r)
    \/ DoBuyExternal(r)
    \/ DoBuyCreateTx(r)
    \/ DoBuyUpdateBuyer(r)
    \/ DoBuyUpdateSeller(r)
    \/ DoBuyUpdateListing(r)
    \/ DoCancelGetUser(r)
    \/ DoCancelDeactivate(r)
    \/ DoCreateInsert(r)

(***************************************************************************)
(* SpecLedger: requests that run together, on a server without a contract  *)
(* handle.  Two handlers are in flight at a time; sellers list MaxAmount   *)
(* kWh at rate 1 and buyers ask for 1 to MaxAmount kWh, as the client      *)
(* does, without a transaction hash.                                       *)
(***************************************************************************)
ConcBuy(r) ==
    DoBuyStart(r, DOMAIN sessions,
               BuyBodies(1..MaxListings,
                         {[t |-> "string", v |-> v] : v \in 1..MaxAmount},
                         {FALSE}), MaxTx)

ConcCancel(r) == DoCancelStart(r, DOMAIN sessions, MaxListings)

ConcCreate(r) ==
    DoCreateStart(r, DOMAIN sessions,
                  CreateBodies({1}, {MaxAmount}, {1}, {0}, {TRUE}, {TRUE}),
                  MaxListings)

NextLedger ==
    \/ \E r \in Slots : ConcBuy(r)
    \/ \E r \in Slots : ConcCancel(r)
    \/ \E r \in Slots : ConcCreate(r)
    \/ \E r \in Slots : LedgerSteps(r)
    \/ Read

\* a server started without MARKETPLACE_ADDRESS
InitMock == InitLedger /\ ~marketplaceContract

SpecLedger == InitMock /\ [][NextLedger]_vars

(***************************************************************************)
(* SpecBuy: one request at a time, on a server with or without a contract  *)
(* handle.  Purchases come with every kind of cookie and body; listings    *)
(* are made as the client makes them.                                      *)
(***************************************************************************)
SeqBuy ==
    DoBuyStart(1, Cookies, BuyBodies(0..MaxListings, AmountInputs, BOOLEAN),
               MaxTx)

SeqCancel == DoCancelStart(1, DOMAIN sessions, MaxListings)

SeqCreate ==
    DoCreateStart(1, DOMAIN sessions,
                  CreateBodies(1..Len(users), {MaxAmount}, 1..MaxRate,
                               {0}, {TRUE}, {FALSE}),
                  MaxListings)

NextBuy ==
    \/ SeqBuy
    \/ SeqCancel
    \/ SeqCreate
    \/ LedgerSteps(1)

SpecBuy == InitLedger /\ [][NextBuy]_vars

\* the tables stay within the bounds
TypeLedger ==
    /\ Len(txs) <= MaxTx
    /\ Len(listings) <= MaxListings
    /\ Len(origAmount) = Len(listings)

(***************************************************************************)
(* SpecDesk: one request at a time on a server without a contract handle,  *)
(* with the arrival of a request (the body parsed, the session loaded) a   *)
(* step of its own before the handler's first storage call.  Signed-in     *)
(* users list MaxAmount kWh at rate 1, buy 1 to MaxAmount kWh of any       *)
(* listing id and cancel any listing id; the body of a cancellation also   *)
(* names a seller, which the handler never reads.                          *)
(***************************************************************************)
\* the request reaches its handler: nothing is read or written yet
Arrive(r, requests) ==
    /\ Quiet
    /\ \E l \in requests :
         /\ l.op = "buy" => Len(txs) < MaxTx
         /\ l.op = "create" => Len(listings) < MaxListings
         /\ reqs' = [reqs EXCEPT ![r] = l]
    /\ base' = Ledger
    /\ batch' = [n |-> 1, done |-> <<>>]
    /\ UNCHANGED <<users, listings, txs, authVars, origAmount, lastRead,
                   market>>

\* the handler up to the answer of its first storage call
DoStart(r) ==
    /\ reqs[r].pc \in {"b_start", "c_start", "l_start"}
    /\ Commit(r, Step(Ledger, reqs[r]), FALSE)

DeskRequests ==
    {NewReq("buy", sessions[sid].userId, body) :
        sid \in DOMAIN sessions,
        body \in BuyBodies(1..MaxListings,
                           {[t |-> "string", v |-> v] : v \in 1..MaxAmount},
                           {FALSE})}
    \cup {NewReq("cancel", sessions[sid].userId, [id |-> id, sellerId |-> claimed]) :
            sid \in DOMAIN sessions, id \in 1..MaxListings,
            claimed \in 1..Len(users)}
    \cup {l \in {NewReq("create", sessions[sid].userId, body) :
                    sid \in DOMAIN sessions,
                    body \in CreateBodies(1..Len(users), {MaxAmount}, {1},
                                          {0}, {TRUE}, {FALSE})} :
            l.body.sellerId = l.uid}

DeskArrive == Arrive(1, DeskRequests)

NextDesk ==
    \/ DeskArrive
    \/ DoStart(1)
    \/ LedgerSteps(1)

SpecDesk == InitMock /\ [][NextDesk]_vars

(***************************************************************************)
(* SpecList: listings made and cancelled one request at a time, with every *)
(* kind of body the schema lets through: amounts and rates of any sign, a  *)
(* totalValue that is or is not the product, isActive true or false, with  *)
(* or without a transaction hash.                                          *)
(***************************************************************************)
ListCreate ==
    DoCreateStart(1, Cookies,
                  CreateBodies(1..Len(users), (0 - 1)..MaxAmount,
                               (0 - 1)..MaxRate, {0, 1}, BOOLEAN, BOOLEAN),
                  MaxListings)

ListCancel == DoCancelStart(1, Cookies, MaxListings)

NextList ==
    \/ ListCreate
    \/ DoCreateInsert(1)
    \/ ListCancel
    \/ DoCancelGetUser(1)
    \/ DoCancelDeactivate(1)
    \/ Read

SpecList == InitLedger /\ [][NextList]_vars

(***************************************************************************)
(* SpecOpen: one request at a time on either deployment, with the ids a    *)
(* body may carry: a purchase names a buyer and a listing a seller, which  *)
(* may or may not be the session's user, and a request may come with no    *)
(* session at all.  A listing request comes with the answer the            *)
(* marketplace contract would give to a createListing call (ext), which    *)
(* blockchainService.createListing never makes.                            *)
(***************************************************************************)
OpenRequests ==
    {NewReq("buy", LoadSession(sid).userId, body) :
        sid \in Cookies,
        body \in [listingId : 1..MaxListings,
                  amount : {[t |-> "string", v |-> v] : v \in 1..MaxAmount},
                  blockchainTxHash : {FALSE},
                  buyerId : 1..Len(users)]}
    \cup {NewReq("cancel", LoadSession(sid).userId,
                 [id |-> id, sellerId |-> claimed]) :
            sid \in Cookies, id \in 1..MaxListings, claimed \in 1..Len(users)}
    \cup {[NewReq("create", LoadSession(sid).userId, body) EXCEPT !.ext = o] :
            sid \in Cookies,
            body \in CreateBodies(1..Len(users), {MaxAmount}, {1}, {0}, {TRUE},
                                  BOOLEAN),
            o \in ExtOutcomes}

OpenArrive == Arrive(1, OpenRequests)

NextOpen ==
    \/ OpenArrive
    \/ DoStart(1)
    \/ LedgerSteps(1)

\* user 2 holds the ether and the energy the chain last reported
InitOpen ==
    /\ InitLedger
    /\ users[2].ethBalance = FundedEth
    /\ users[2].energyBalance = INITIAL_GRANT

SpecOpen == InitOpen /\ [][NextOpen]_vars

(***************************************************************************)
(* SpecRace: two requests in flight at a time on a server without a        *)
(* contract handle.  User 1 lists MaxAmount kWh at rate 1 and cancels,     *)
(* user 2 holds FundedEth and buys 1 to MaxAmount kWh; any step of one     *)
(* request may come between two steps of the other.                        *)
(***************************************************************************)
RaceBuy(r) ==
    DoBuyStart(r, {2},
               BuyBodies(1..MaxListings,
                         {[t |-> "string", v |-> v] : v \in 1..MaxAmount},
                         {FALSE}), MaxTx)

RaceCancel(r) == DoCancelStart(r, {1}, MaxListings)

RaceCreate(r) ==
    DoCreateStart(r, {1},
                  CreateBodies({1}, {MaxAmount}, {1}, {0}, {TRUE}, {TRUE}),
                  MaxListings)

NextRace ==
    \/ \E r \in Slots : RaceBuy(r)
    \/ \E r \in Slots : RaceCancel(r)
    \/ \E r \in Slots : RaceCreate(r)
    \/ \E r \in Slots : LedgerSteps(r)

InitRace == InitOpen /\ ~marketplaceContract

SpecRace == InitRace /\ [][NextRace]_vars

(***************************************************************************)
(* server/routes.ts: sign-in.  A message is the text the wallet signed; a  *)
(* well-formed one is known by the fields parseSiweMessage extracts.       *)
(***************************************************************************)
HostDomain == "host"        \* req.get("host")
HostUri == "origin"         \* `${protocol}://${expectedDomain}`

NoMessage == [format |-> "missing", domain |-> "none",
              address |-> NoUser.walletAddress, uri |-> "none",
              chainId |-> 0, nonce |-> 0]

Garbled == [NoMessage EXCEPT !.format = "garbled"]

Siwe(domain, address, uri, chainId, nonce) ==
    [format |-> "siwe", domain |-> domain, address |-> address, uri |-> uri,
     chainId |-> chainId, nonce |-> nonce]

\* a signature is absent, not a signature at all, or made by a key over the
\* message it comes with
Signatures == {[kind |-> "missing", signer |-> "none"],
               [kind |-> "malformed", signer |-> "none"]}
              \cup {[kind |-> "by", signer |-> k] : k \in Keys}

\* function parseSiweMessage(message): null for a text that is not of the form
parseSiweMessage(message) ==
    IF message.format = "siwe" THEN message ELSE NoMessage

\* ethers.verifyMessage(message, signature): the signer's address, in its
\* mixed-case rendering
verifyMessage(message, signature) == [key |-> signature.signer, cs |-> "checksum"]

Answer(s, e) == [status |-> s, err |-> e]

\* a handler that compares the URI before the domain
VerifyChecksUriFirst(session, body) ==
    LET parsedMessage == parseSiweMessage(body.message) IN
    IF body.message.format = "missing" \/ body.signature.kind = "missing"
    THEN Answer(400, "Missing message or signature")
    ELSE IF session.nonce = 0
    THEN Answer(401, "No nonce found, please request a new one")
    ELSE IF parsedMessage.format # "siwe"
    THEN Answer(400, "Invalid SIWE message format")
    ELSE IF parsedMessage.uri # HostUri
    THEN Answer(401, "Invalid URI in SIWE message")
    ELSE IF parsedMessage.domain # HostDomain
    THEN Answer(401, "Invalid domain in SIWE message")
    ELSE IF parsedMessage.chainId # SEPOLIA
    THEN Answer(401, "Invalid chain ID, must be Sepolia (11155111)")
    ELSE IF parsedMessage.nonce # session.nonce
    THEN Answer(401, "Invalid nonce")
    ELSE IF body.signature.kind = "malformed"
    THEN Answer(401, "Authentication failed")
    ELSE IF toLowerCase(verifyMessage(body.message, body.signature))
            # toLowerCase(parsedMessage.address)
    THEN Answer(401, "Invalid signature")
    ELSE Answer(200, "none")

\* a handler that compares the nonce before the chain id
VerifyChecksNonceFirst(session, body) ==
    LET parsedMessage == parseSiweMessage(body.message) IN
    IF body.message.format = "missing" \/ body.signature.kind = "missing"
    THEN Answer(400, "Missing message or signature")
    ELSE IF session.nonce = 0
    THEN Answer(401, "No nonce found, please request a new one")
    ELSE IF parsedMessage.format # "siwe"
    THEN Answer(400, "Invalid SIWE message format")
    ELSE IF parsedMessage.domain # HostDomain
    THEN Answer(401, "Invalid domain in SIWE message")
    ELSE IF parsedMessage.uri # HostUri
    THEN Answer(401, "Invalid URI in SIWE message")
    ELSE IF parsedMessage.nonce # session.nonce
    THEN Answer(401, "Invalid nonce")
    ELSE IF parsedMessage.chainId # SEPOLIA
    THEN Answer(401, "Invalid chain ID, must be Sepolia (11155111)")
    ELSE IF body.signature.kind = "malformed"
    THEN Answer(401, "Authentication failed")
    ELSE IF toLowerCase(verifyMessage(body.message, body.signature))
            # toLowerCase(parsedMessage.address)
    THEN Answer(401, "Invalid signature")
    ELSE Answer(200, "none")

\* a handler that takes the signature of any key for that of the address
VerifyChecksAnySigner(session, body) ==
    LET parsedMessage == parseSiweMessage(body.message) IN
    IF body.message.format = "missing" \/ body.signature.kind = "missing"
    THEN Answer(400, "Missing message or signature")
    ELSE IF session.nonce = 0
    THEN Answer(401, "No nonce found, please request a new one")
    ELSE IF parsedMessage.format # "siwe"
    THEN Answer(400, "Invalid SIWE message format")
    ELSE IF parsedMessage.domain # HostDomain
    THEN Answer(401, "Invalid domain in SIWE message")
    ELSE IF parsedMessage.uri # HostUri
    THEN Answer(401, "Invalid URI in SIWE message")
    ELSE IF parsedMessage.chainId # SEPOLIA
    THEN Answer(401, "Invalid chain ID, must be Sepolia (11155111)")
    ELSE IF parsedMessage.nonce # session.nonce
    THEN Answer(401, "Invalid nonce")
    ELSE IF body.signature.kind = "malformed"
    THEN Answer(401, "Authentication failed")
    ELSE Answer(200, "none")

\* POST /api/auth/verify from its first line to the signature check: the
\* answer it ends with, or 200 when every check passed
VerifyChecks(session, body) ==
    LET parsedMessage == parseSiweMessage(body.message) IN
    IF body.message.format = "missing" \/ body.signature.kind = "missing"
    THEN Answer(400, "Missing message or signature")
    ELSE IF session.nonce = 0
    THEN Answer(401, "No nonce found, please request a new one")
    ELSE IF parsedMessage.format # "siwe"
    THEN Answer(400, "Invalid SIWE message format")
    ELSE IF parsedMessage.domain # HostDomain
    THEN Answer(401, "Invalid domain in SIWE message")
    ELSE IF parsedMessage.uri # HostUri
    THEN Answer(401, "Invalid URI in SIWE message")
    ELSE IF parsedMessage.chainId # SEPOLIA
    THEN Answer(401, "Invalid chain ID, must be Sepolia (11155111)")
    ELSE IF parsedMessage.nonce # session.nonce
    THEN Answer(401, "Invalid nonce")
    ELSE IF body.signature.kind = "malformed"
    THEN Answer(401, "Authentication failed")
    ELSE IF toLowerCase(verifyMessage(body.message, body.signature))
            # toLowerCase(parsedMessage.address)
    THEN Answer(401, "Invalid signature")
    ELSE Answer(200, "none")

\* the answers of an attempt that got as far as comparing the nonce
ComparedNonce(err) ==
    err \in {"Invalid nonce", "Authentication failed", "Invalid signature"}

Without(f, x) == [y \in DOMAIN f \ {x} |-> f[y]]

\* the session store keeps no nonce of an attempt that ended on sid
Ended(sid) == IF sid \in DOMAIN sessions THEN compared \cup {sid} ELSE compared

\* app.get("/api/auth/nonce"): a new nonce in the caller's session; a caller
\* without a stored session gets a new session
GetNonce(cookie) ==
    /\ nextNonce <= MaxNonce
    /\ IF cookie \in DOMAIN sessions
       THEN /\ sessions' = [sessions EXCEPT ![cookie].nonce = nextNonce]
            /\ compared' = compared \ {cookie}
            /\ UNCHANGED nextSid
       ELSE /\ nextSid + InFlight("verify") <= MaxSid
            /\ sessions' = sessions @@ (nextSid :> [NoSession EXCEPT !.nonce = nextNonce])
            /\ nextSid' = nextSid + 1
            /\ UNCHANGED compared
    /\ nextNonce' = nextNonce + 1
    /\ UNCHANGED <<users, reqs, marketplaceContract, validated, retired,
                   ledgerVars>>

\* what stays of an answered verification when its answer is kept in full:
\* the message it came with, the status and the message of the answer
Verdict(l) == [Residue(l) EXCEPT !.body = [message |-> l.body.message],
                                 !.err = l.err]

\* a handler that binds the session to the User of the message's address
\* before it makes the checks
VerifyStartBinding(r, sid, body, keep) ==
    LET v == VerifyChecks(LoadSession(sid), body)
        l == [IdleReq EXCEPT !.op = "verify", !.sid = sid, !.body = body,
                             !.status = v.status, !.err = v.err]
        user == getUserByWalletAddress(Ledger, body.message.address)
    IN  /\ reqs' = [reqs EXCEPT ![r] =
                       IF v.status = 200
                       THEN [l EXCEPT !.pc = "v_lookup", !.status = 0]
                       ELSE IF keep THEN Verdict(l) ELSE Residue(l)]
        /\ compared' = IF ComparedNonce(v.err) THEN Ended(sid) ELSE compared
        /\ sessions' = IF sid \in DOMAIN sessions
                       THEN [sessions EXCEPT ![sid].userId = user.id]
                       ELSE sessions
        /\ UNCHANGED <<users, nextSid, nextNonce, marketplaceContract,
                       validated, retired, ledgerVars>>

\* POST /api/auth/verify with cookie sid and this body, from the loading of
\* the session to the last check; keep: the slot keeps the whole answer
VerifyStart(r, sid, body, keep) ==
    LET v == VerifyChecks(LoadSession(sid), body)
        l == [IdleReq EXCEPT !.op = "verify", !.sid = sid, !.body = body,
                             !.status = v.status, !.err = v.err]
    IN  /\ reqs' = [reqs EXCEPT ![r] =
                       IF v.status = 200
                       THEN [l EXCEPT !.pc = "v_lookup", !.status = 0]
                       ELSE IF keep THEN Verdict(l) ELSE Residue(l)]
        /\ compared' = IF ComparedNonce(v.err) THEN Ended(sid) ELSE compared
        /\ UNCHANGED <<users, sessions, nextSid, nextNonce, marketplaceContract,
                       validated, retired, ledgerVars>>

DoVerifyStart(r, cookies, bodies) ==
    /\ reqs[r].pc = "idle"
    /\ nextSid + InFlight("verify") <= MaxSid
    /\ \E sid \in cookies, body \in bodies : VerifyStart(r, sid, body, FALSE)

\* a verification request reaches the server: nothing is read or checked yet
VerifyArrive(r, cookies, bodies) ==
    /\ reqs[r].pc = "idle"
    /\ nextSid + InFlight("verify") <= MaxSid
    /\ \E sid \in cookies, body \in bodies :
         reqs' = [reqs EXCEPT ![r] =
                    [IdleReq EXCEPT !.pc = "v_start", !.op = "verify",
                                    !.sid = sid, !.body = body]]
    /\ UNCHANGED <<users, authVars, ledgerVars>>

\* the session of the request that arrived is loaded and the checks are made
DoVerifyChecks(r) ==
    /\ reqs[r].pc = "v_start"
    /\ VerifyStart(r, reqs[r].sid, reqs[r].body, TRUE)

\* let user = await storage.getUserByWalletAddress(walletAddress)
DoVerifyLookup(r) ==
    /\ reqs[r].pc = "v_lookup"
    /\ LET user == getUserByWalletAddress(Ledger, reqs[r].body.message.address)
       IN  reqs' = [reqs EXCEPT ![r].user = user,
                                ![r].pc = IF user.id = 0 THEN "v_create"
                                          ELSE "v_reconcile"]
    /\ UNCHANGED <<users, authVars, ledgerVars>>

\* a handler whose login fails with the mint
VerifyMintUncaught(l, o) ==
    IF o = "failed"
    THEN Respond(l, 401, "Authentication failed")
    ELSE [l EXCEPT !.ext = o, !.txHash = mintInitialTokens(o), !.pc = "v_regen"]

\* try { await blockchainService.mintInitialTokens(walletAddress, "1000") }
\* catch (error) { console.error(...) }: the request goes on whatever the
\* outcome o of the mint
VerifyMint(l, o) ==
    [l EXCEPT !.ext = o, !.txHash = mintInitialTokens(o), !.pc = "v_regen"]

\* user = await storage.createUser({...}) and the mint; the insert throws
\* when the address is already in the table
DoVerifyCreate(r, mints) ==
    /\ reqs[r].pc = "v_create"
    /\ LET walletAddress == reqs[r].body.message.address IN
       IF getUserByWalletAddress(Ledger, walletAddress).id # 0
       THEN /\ reqs' = [reqs EXCEPT ![r] =
                          Residue(Respond(@, 401, "Authentication failed"))]
            /\ compared' = Ended(reqs[r].sid)
            /\ UNCHANGED users
       ELSE LET L == createUser(Ledger,
                        [id |-> 0, walletAddress |-> walletAddress,
                         energyBalance |-> INITIAL_GRANT, ethBalance |-> 0,
                         totalEarnings |-> 0, isNewUser |-> TRUE])
            IN  \E o \in mints :
                  LET l == VerifyMint([reqs[r] EXCEPT
                                         !.user = L.users[Len(L.users)]], o)
                  IN  /\ users' = L.users
                      /\ reqs' = [reqs EXCEPT ![r] =
                                     IF l.pc = "idle" THEN Residue(l) ELSE l]
                      /\ compared' = IF l.pc = "idle" THEN Ended(reqs[r].sid)
                                     ELSE compared
    /\ UNCHANGED <<sessions, nextSid, nextNonce, marketplaceContract, validated,
                   retired, ledgerVars>>

\* the balances read from the chain, await storage.updateUser(user.id, {...})
\* and user = await storage.getUser(user.id); the request remembers whether
\* both reads were answered by the chain (ext)
DoVerifyReconcile(r, reads) ==
    /\ reqs[r].pc = "v_reconcile"
    /\ \E read \in reads :
         LET L == updateUser(Ledger, reqs[r].user.id,
                     [ethBalance |-> getEthBalance(read.ethOk, FundedEth),
                      energyBalance |-> getEnergyBalance(read.energyOk, 1)])
         IN  /\ users' = L.users
             /\ reqs' = [reqs EXCEPT ![r].user = getUser(L, reqs[r].user.id),
                                      ![r].ext = IF read.ethOk /\ read.energyOk
                                                 THEN "confirmed" ELSE "failed",
                                      ![r].pc = "v_regen"]
    /\ UNCHANGED <<authVars, ledgerVars>>

\* a regenerate that keeps the stored session and its identifier
regenerateInPlace(store, sid, newSid) == [store |-> store, sid |-> sid]

\* req.session.regenerate(...): the stored session is destroyed and the
\* request gets an empty session with the new identifier
regenerate(store, sid, newSid) == [store |-> Without(store, sid), sid |-> newSid]

DoVerifyRegenerate(r) ==
    /\ reqs[r].pc = "v_regen"
    /\ LET g == regenerate(sessions, reqs[r].sid, nextSid)
       IN  /\ sessions' = g.store
           /\ reqs' = [reqs EXCEPT ![r].sid = g.sid, ![r].pc = "v_save"]
    /\ compared' = compared \ {reqs[r].sid}
    /\ retired' = retired \cup {reqs[r].sid}
    /\ nextSid' = nextSid + 1
    /\ UNCHANGED <<users, nextNonce, marketplaceContract, validated, ledgerVars>>

\* req.session.userId = user.id, req.session.walletAddress = walletAddress,
\* req.session.save(...) and res.json({ user })
DoVerifySave(r) ==
    /\ reqs[r].pc = "v_save"
    /\ sessions' = [sid \in DOMAIN sessions \cup {reqs[r].sid} |->
                      IF sid = reqs[r].sid
                      THEN [LoadSession(sid) EXCEPT
                              !.userId = reqs[r].user.id,
                              !.walletAddress = reqs[r].body.message.address]
                      ELSE sessions[sid]]
    /\ validated' = [validated EXCEPT ![reqs[r].body.message.nonce] = @ + 1]
    /\ reqs' = [reqs EXCEPT ![r] = Residue(Respond(@, 200, "none"))]
    /\ UNCHANGED <<users, nextSid, nextNonce, marketplaceContract, compared,
                   retired, ledgerVars>>

\* app.post("/api/auth/logout"): req.session.destroy(...)
Logout(cookie) ==
    /\ cookie \in DOMAIN sessions
    /\ sessions' = Without(sessions, cookie)
    /\ compared' = compared \ {cookie}
    /\ UNCHANGED <<users, reqs, nextSid, nextNonce, marketplaceContract,
                   validated, retired, ledgerVars>>

(***************************************************************************)
(* SpecAuth: sign-in on a new server, two verifications in flight at a     *)
(* time.  A request carries a well-formed message for the server with one  *)
(* of three addresses and any nonce, or a message with a single field      *)
(* wrong; the two balance reads of a reconciliation succeed or fail        *)
(* together.                                                               *)
(***************************************************************************)
InitAuth ==
    /\ users = <<>>
    /\ listings = <<>>
    /\ txs = <<>>
    /\ sessions = [sid \in {} |-> NoSession]
    /\ nextSid = 1
    /\ nextNonce = 1
    /\ marketplaceContract = FALSE
    /\ reqs = [r \in Slots |-> IdleReq]
    /\ validated = [n \in 1..MaxNonce |-> 0]
    /\ compared = {}
    /\ retired = {}
    /\ origAmount = <<>>
    /\ base = Ledger
    /\ batch = [n |-> 0, done |-> <<>>]
    /\ lastRead = "whole"
    /\ market = Deployed

AuthAddresses == {a \in Addresses : a.key = "A" \/ a.cs = "lower"}

AuthMessages ==
    {Siwe(HostDomain, a, HostUri, SEPOLIA, n) :
        a \in AuthAddresses, n \in 1..MaxNonce}
    \cup {NoMessage, Garbled,
          Siwe("evil", [key |-> "A", cs |-> "lower"], HostUri, SEPOLIA, 1),
          Siwe(HostDomain, [key |-> "A", cs |-> "lower"], "elsewhere", SEPOLIA, 1),
          Siwe(HostDomain, [key |-> "A", cs |-> "lower"], HostUri, 1, 1)}

AuthVerify(r) ==
    DoVerifyStart(r, Cookies, [message : AuthMessages, signature : Signatures])

\* a new server has no token contract: the mint makes no call
AuthCreate(r) == DoVerifyCreate(r, {"unconfigured"})

AuthReconcile(r) ==
    DoVerifyReconcile(r, {[ethOk |-> ok, energyOk |-> ok] : ok \in BOOLEAN})

NextAuth ==
    \/ \E cookie \in Cookies : GetNonce(cookie)
    \/ \E r \in Slots : AuthVerify(r)
    \/ \E r \in Slots : DoVerifyLookup(r)
    \/ \E r \in Slots : AuthCreate(r)
    \/ \E r \in Slots : AuthReconcile(r)
    \/ \E r \in Slots : DoVerifyRegenerate(r)
    \/ \E r \in Slots : DoVerifySave(r)
    \/ \E cookie \in Cookies : Logout(cookie)

SpecAuth == InitAuth /\ [][NextAuth]_vars

\* the session store stays within the bounds
TypeAuth ==
    /\ nextSid <= MaxSid + 1
    /\ nextNonce <= MaxNonce + 1
    /\ DOMAIN sessions \subseteq 1..MaxSid

(***************************************************************************)
(* SpecGate: sign-in on a server that knows user 1 (address A), signed in  *)
(* on session 1 with the balances the chain reports, as a reconciliation   *)
(* last wrote them; address B has no user.  One verification at a time,    *)
(* with a message for address A in which any of domain, URI, chain id and  *)
(* nonce may be wrong at once or a message for address B, any signature,   *)
(* any outcome of the mint and of either balance read.                     *)
(***************************************************************************)
InitGate ==
    /\ users = << [id |-> 1, walletAddress |-> [key |-> "A", cs |-> "lower"],
                   energyBalance |-> 1, ethBalance |-> FundedEth,
                   totalEarnings |-> 0, isNewUser |-> TRUE] >>
    /\ listings = <<>>
    /\ txs = <<>>
    /\ sessions = (1 :> [nonce |-> 0, userId |-> 1,
                         walletAddress |-> [key |-> "A", cs |-> "lower"]])
    /\ nextSid = 2
    /\ nextNonce = 1
    /\ marketplaceContract = FALSE
    /\ reqs = [r \in Slots |-> IdleReq]
    /\ validated = [n \in 1..MaxNonce |-> 0]
    /\ compared = {}
    /\ retired = {}
    /\ origAmount = <<>>
    /\ base = Ledger
    /\ batch = [n |-> 0, done |-> <<>>]
    /\ lastRead = "whole"
    /\ market = Deployed

GateAddresses == {a \in Addresses : a.cs = "lower"}

GateMessages ==
    {Siwe(domain, [key |-> "A", cs |-> "lower"], uri, chainId, n) :
        domain \in {HostDomain, "evil"}, uri \in {HostUri, "elsewhere"},
        chainId \in {SEPOLIA, 1}, n \in 1..MaxNonce}
    \cup {Siwe(HostDomain, a, HostUri, SEPOLIA, n) :
             a \in GateAddresses, n \in 1..MaxNonce}
    \cup {NoMessage, Garbled}

\* a request comes without a cookie or with the cookie of a stored session
GateArrive ==
    VerifyArrive(1, {0} \cup DOMAIN sessions,
                 [message : GateMessages, signature : Signatures])

GateCreate == DoVerifyCreate(1, MintOutcomes)

GateReconcile == DoVerifyReconcile(1, [ethOk : BOOLEAN, energyOk : BOOLEAN])

NextGate ==
    \/ \E cookie \in Cookies : GetNonce(cookie)
    \/ GateArrive
    \/ DoVerifyChecks(1)
    \/ DoVerifyLookup(1)
    \/ GateCreate
    \/ GateReconcile
    \/ DoVerifyRegenerate(1)
    \/ DoVerifySave(1)

SpecGate == InitGate /\ [][NextGate]_vars

(***************************************************************************)
(* server/routes.ts: POST /api/auth/connect, the legacy sign-in.  It reads *)
(* and writes the users table and never touches req.session.               *)
(***************************************************************************)
\* BlockchainService.verifySignature: the signer's address and the claimed
\* one compared in lowercase; false when the signature cannot be decoded
verifySignature(address, signature) ==
    /\ signature.kind = "by"
    /\ toLowerCase(verifyMessage("text", signature)) = toLowerCase(address)

\* the handler up to the answer of storage.getUserByWalletAddress
DoConnectStart(r, bodies) ==
    /\ reqs[r].pc = "idle"
    /\ \E body \in bodies :
         LET l == [IdleReq EXCEPT !.op = "connect", !.body = body]
             user == getUserByWalletAddress(Ledger, body.walletAddress)
         IN  reqs' = [reqs EXCEPT ![r] =
                IF body.signature.kind = "missing"
                THEN Residue(Respond(l, 400, "Missing required fields"))
                ELSE IF ~verifySignature(body.walletAddress, body.signature)
                THEN Residue(Respond(l, 401, "Invalid signature"))
                ELSE [l EXCEPT !.user = user,
                               !.pc = IF user.id = 0 THEN "k_create"
                                      ELSE "k_reconcile"]]
    /\ UNCHANGED <<users, authVars, ledgerVars>>

\* user = await storage.createUser({...}), the mint and res.json({ user });
\* the insert throws when the address is already in the table
DoConnectCreate(r, mints) ==
    /\ reqs[r].pc = "k_create"
    /\ LET walletAddress == reqs[r].body.walletAddress IN
       IF getUserByWalletAddress(Ledger, walletAddress).id # 0
       THEN /\ reqs' = [reqs EXCEPT ![r] =
                          Residue(Respond(@, 500, "Authentication failed"))]
            /\ UNCHANGED users
       ELSE /\ users' = createUser(Ledger,
                            [id |-> 0, walletAddress |-> walletAddress,
                             energyBalance |-> INITIAL_GRANT, ethBalance |-> 0,
                             totalEarnings |-> 0, isNewUser |-> TRUE]).users
            /\ \E o \in mints :
                 reqs' = [reqs EXCEPT ![r] =
                            Residue(Respond([@ EXCEPT
                                       !.txHash = mintInitialTokens(o)],
                                    200, "none"))]
    /\ UNCHANGED <<authVars, ledgerVars>>

\* the balances read from the chain, await storage.updateUser(user.id, {...}),
\* user = await storage.getUser(user.id) and res.json({ user })
DoConnectReconcile(r, reads) ==
    /\ reqs[r].pc = "k_reconcile"
    /\ \E read \in reads :
         users' = updateUser(Ledger, reqs[r].user.id,
                     [ethBalance |-> getEthBalance(read.ethOk, FundedEth),
                      energyBalance |-> getEnergyBalance(read.energyOk, 1)]).users
    /\ reqs' = [reqs EXCEPT ![r] = Residue(Respond(@, 200, "none"))]
    /\ UNCHANGED <<authVars, ledgerVars>>

(***************************************************************************)
(* SpecBind: every route that reads or could write a session, one request  *)
(* at a time, on the server of SpecGate: nonces, verifications with a good *)
(* message or with one field wrong, logouts and legacy sign-ins of the     *)
(* lowercase addresses with any signature.                                 *)
(***************************************************************************)
BindMessages ==
    {m \in AuthMessages : m.format = "siwe" => m.address \in GateAddresses}

BindVerifyArrive ==
    VerifyArrive(1, {0} \cup DOMAIN sessions,
                 [message : BindMessages, signature : Signatures])

\* the checks of the request that arrived; of a rejected one only the
\* status of the answer is kept
BindVerifyChecks ==
    /\ reqs[1].pc = "v_start"
    /\ VerifyStart(1, reqs[1].sid, reqs[1].body, FALSE)

BindConnect ==
    DoConnectStart(1, [walletAddress : GateAddresses, signature : Signatures])

NextBind ==
    \/ \E cookie \in Cookies : GetNonce(cookie)
    \/ BindVerifyArrive
    \/ BindVerifyChecks
    \/ DoVerifyLookup(1)
    \/ AuthCreate(1)
    \/ AuthReconcile(1)
    \/ DoVerifyRegenerate(1)
    \/ DoVerifySave(1)
    \/ \E cookie \in DOMAIN sessions : Logout(cookie)
    \/ BindConnect
    \/ DoConnectCreate(1, {"unconfigured"})
    \/ DoConnectReconcile(1, {[ethOk |-> ok, energyOk |-> ok] : ok \in BOOLEAN})

SpecBind == InitGate /\ [][NextBind]_vars

(***************************************************************************)
(* SpecSession: the session middleware seen step by step.  express-session *)
(* loads the stored session before the handler runs and, when the handler  *)
(* has changed it, writes it back under the same identifier as the         *)
(* response ends; the store inserts the row when it is not there.          *)
(***************************************************************************)
\* GET /api/auth/nonce arrives: the session of the cookie is loaded, or a new
\* one with a new identifier is made
NonceLoad(r, cookie) ==
    /\ reqs[r].pc = "idle"
    /\ nextNonce + InFlight("nonce") <= MaxNonce
    /\ IF cookie \in DOMAIN sessions
       THEN /\ reqs' = [reqs EXCEPT ![r] =
                          [IdleReq EXCEPT !.pc = "n_save", !.op = "nonce",
                                          !.sid = cookie,
                                          !.body = sessions[cookie]]]
            /\ UNCHANGED nextSid
       ELSE /\ nextSid + InFlight("verify") <= MaxSid
            /\ reqs' = [reqs EXCEPT ![r] =
                          [IdleReq EXCEPT !.pc = "n_save", !.op = "nonce",
                                          !.sid = nextSid, !.body = NoSession]]
            /\ nextSid' = nextSid + 1
    /\ UNCHANGED <<users, sessions, nextNonce, marketplaceContract, validated,
                   compared, retired, ledgerVars>>

\* req.session.nonce = nonce; res.json({ nonce }): the session as it was
\* loaded, with the new nonce, is written to the store
NonceSave(r) ==
    /\ reqs[r].pc = "n_save"
    /\ sessions' = (reqs[r].sid :> [reqs[r].body EXCEPT !.nonce = nextNonce])
                   @@ sessions
    /\ nextNonce' = nextNonce + 1
    /\ compared' = compared \ {reqs[r].sid}
    /\ reqs' = [reqs EXCEPT ![r] = Residue(Respond(@, 200, "none"))]
    /\ UNCHANGED <<users, nextSid, marketplaceContract, validated, retired,
                   ledgerVars>>

\* GET /api/auth/me arrives with a cookie: nothing is read yet
MeArrive(r, cookie) ==
    /\ reqs[r].pc = "idle"
    /\ reqs' = [reqs EXCEPT ![r] =
                  [IdleReq EXCEPT !.pc = "m_start", !.op = "me", !.sid = cookie]]
    /\ UNCHANGED <<users, authVars, ledgerVars>>

\* app.get("/api/auth/me", requireAuth, ...): the session is loaded,
\* requireAuth looks at its userId, the user is read
DoMe(r) ==
    /\ reqs[r].pc = "m_start"
    /\ LET l == [reqs[r] EXCEPT !.uid = LoadSession(reqs[r].sid).userId] IN
       reqs' = [reqs EXCEPT ![r] =
                  IF ~requireAuth(l)
                  THEN Residue(Respond(l, 401, "Authentication required"))
                  ELSE IF getUser(Ledger, l.uid).id = 0
                  THEN Residue(Respond(l, 404, "User not found"))
                  ELSE Residue(Respond(l, 200, "none"))]
    /\ UNCHANGED <<users, authVars, ledgerVars>>

\* the identifiers a cookie may carry: none (0) or any identifier issued
IssuedCookies == 0..(nextSid - 1)

\* a message for the server with the session's nonce, signed by its address
SessionBodies ==
    {[message |-> Siwe(HostDomain, a, HostUri, SEPOLIA, n),
      signature |-> [kind |-> "by", signer |-> a.key]] :
        a \in GateAddresses, n \in 1..MaxNonce}

NextSession ==
    \/ \E r \in Slots, cookie \in IssuedCookies : NonceLoad(r, cookie)
    \/ \E r \in Slots : NonceSave(r)
    \/ \E cookie \in IssuedCookies : Logout(cookie)
    \/ \E r \in Slots, cookie \in IssuedCookies : MeArrive(r, cookie)
    \/ \E r \in Slots : DoMe(r)
    \/ \E r \in Slots : VerifyArrive(r, IssuedCookies, SessionBodies)
    \/ \E r \in Slots : DoVerifyChecks(r)
    \/ \E r \in Slots : DoVerifyLookup(r)
    \/ \E r \in Slots : AuthCreate(r)
    \/ \E r \in Slots : AuthReconcile(r)
    \/ \E r \in Slots : DoVerifyRegenerate(r)
    \/ \E r \in Slots : DoVerifySave(r)

SpecSession == InitGate /\ [][NextSession]_vars

(***************************************************************************)
(* server/routes.ts: GET /api/users/:walletAddress, the balance view.      *)
(***************************************************************************)
\* the request reaches the server with its cookie and the address of its
\* path: the session is loaded, nothing else is read yet
ViewArrive(r, cookies, addresses) ==
    /\ reqs[r].pc = "idle"
    /\ \E sid \in cookies, walletAddress \in addresses :
         reqs' = [reqs EXCEPT ![r] =
                    [IdleReq EXCEPT !.pc = "u_start", !.op = "view",
                                    !.sid = sid,
                                    !.uid = LoadSession(sid).userId,
                                    !.body = [walletAddress |-> walletAddress]]]
    /\ UNCHANGED <<users, authVars, ledgerVars>>

\* requireAuth, then
\* const user = await storage.getUserByWalletAddress(walletAddress)
DoViewLookup(r) ==
    /\ reqs[r].pc = "u_start"
    /\ LET l == reqs[r]
           user == getUserByWalletAddress(Ledger, l.body.walletAddress)
       IN  reqs' = [reqs EXCEPT ![r] =
                      IF ~requireAuth(l)
                      THEN Residue(Respond(l, 401, "Authentication required"))
                      ELSE IF user.id = 0
                      THEN Residue(Respond(l, 404, "User not found"))
                      ELSE [l EXCEPT !.user = user, !.pc = "u_reconcile"]]
    /\ UNCHANGED <<users, authVars, ledgerVars>>

\* the balances read from the chain, await storage.updateUser(user.id, {...})
\* and res.json({ user: updatedUser })
DoViewReconcile(r, reads) ==
    /\ reqs[r].pc = "u_reconcile"
    /\ \E read \in reads :
         LET L == updateUser(Ledger, reqs[r].user.id,
                     [ethBalance |-> getEthBalance(read.ethOk, FundedEth),
                      energyBalance |-> getEnergyBalance(read.energyOk, 1)])
         IN  users' = L.users
    /\ reqs' = [reqs EXCEPT ![r] = Residue(Respond(@, 200, "none"))]
    /\ UNCHANGED <<authVars, ledgerVars>>

(***************************************************************************)
(* SpecView: reconciliations on a ledger that holds a listing and a        *)
(* purchase.  User 1 has listed MaxAmount kWh at rate 1 and user 2 has     *)
(* bought 1 kWh of it; both are signed in.  Either user asks for a nonce   *)
(* and signs in again, which reconciles the user of the message, and any   *)
(* caller views the balances of any address; each balance read succeeds or *)
(* fails on its own.                                                       *)
(***************************************************************************)
\* the ledger after the listing request and the purchase ran, one after the
\* other, on the ledger of two new users of which user 2 holds FundedEth
ViewLedger ==
    LET L0 == LedgerOf(
                << [id |-> 1, walletAddress |-> [key |-> "A", cs |-> "lower"],
                    energyBalance |-> INITIAL_GRANT, ethBalance |-> 0,
                    totalEarnings |-> 0, isNewUser |-> TRUE],
                   [id |-> 2, walletAddress |-> [key |-> "B", cs |-> "lower"],
                    energyBalance |-> INITIAL_GRANT, ethBalance |-> FundedEth,
                    totalEarnings |-> 0, isNewUser |-> TRUE] >>,
                <<>>, <<>>)
        L1 == Alone(L0, [op |-> "create", uid |-> 1, ext |-> "none",
                         body |-> [sellerId |-> 1, amountKWh |-> MaxAmount,
                                   ratePerKWh |-> 1, totalValue |-> MaxAmount,
                                   isActive |-> TRUE,
                                   blockchainTxHash |-> FALSE]])
    IN  Alone(L1, [op |-> "buy", uid |-> 2, ext |-> "unconfigured",
                   body |-> [listingId |-> 1,
                             amount |-> [t |-> "string", v |-> 1],
                             blockchainTxHash |-> FALSE]])

InitView ==
    /\ users = ViewLedger.users
    /\ listings = ViewLedger.listings
    /\ txs = ViewLedger.txs
    /\ sessions = (1 :> [nonce |-> 0, userId |-> 1,
                         walletAddress |-> [key |-> "A", cs |-> "lower"]])
               @@ (2 :> [nonce |-> 0, userId |-> 2,
                         walletAddress |-> [key |-> "B", cs |-> "lower"]])
    /\ nextSid = 3
    /\ nextNonce = 1
    /\ marketplaceContract = FALSE
    /\ reqs = [r \in Slots |-> IdleReq]
    /\ validated = [n \in 1..MaxNonce |-> 0]
    /\ compared = {}
    /\ retired = {}
    /\ origAmount = <<MaxAmount>>
    /\ base = Ledger
    /\ batch = [n |-> 0, done |-> <<>>]
    /\ lastRead = "whole"
    /\ market = Deployed

BalanceReads == [ethOk : BOOLEAN, energyOk : BOOLEAN]

ViewVerifyArrive == VerifyArrive(1, DOMAIN sessions, SessionBodies)

ViewVerifyReconcile == DoVerifyReconcile(1, BalanceReads)

NextView ==
    \/ \E cookie \in DOMAIN sessions : GetNonce(cookie)
    \/ ViewVerifyArrive
    \/ DoVerifyChecks(1)
    \/ DoVerifyLookup(1)
    \/ ViewVerifyReconcile
    \/ DoVerifyRegenerate(1)
    \/ DoVerifySave(1)
    \/ ViewArrive(1, Cookies, Addresses)
    \/ DoViewLookup(1)
    \/ DoViewReconcile(1, BalanceReads)

SpecView == InitView /\ [][NextView]_vars

(***************************************************************************)
(* server/routes.ts: GET /api/transactions/user/:userId.                   *)
(***************************************************************************)
\* the request reaches the server with its cookie and the id of its path
TxsArrive(r, cookies, userIds) ==
    /\ reqs[r].pc = "idle"
    /\ \E sid \in cookies, userId \in userIds :
         reqs' = [reqs EXCEPT ![r] =
                    [IdleReq EXCEPT !.pc = "t_start", !.op = "txs",
                                    !.sid = sid,
                                    !.uid = LoadSession(sid).userId,
                                    !.body = [userId |-> userId]]]
    /\ UNCHANGED <<users, authVars, ledgerVars>>

\* requireAuth, then storage.getUserTransactions(userId) and the users of
\* each row, which are read and sent and nowhere kept
DoUserTxs(r) ==
    /\ reqs[r].pc = "t_start"
    /\ reqs' = [reqs EXCEPT ![r] =
                  IF ~requireAuth(@)
                  THEN Residue(Respond(@, 401, "Authentication required"))
                  ELSE Residue(Respond(@, 200, "none"))]
    /\ UNCHANGED <<users, authVars, ledgerVars>>

(***************************************************************************)
(* SpecDoor: the six routes behind requireAuth, one request at a time on a *)
(* server without a contract handle.  A request comes without a cookie or  *)
(* with the cookie of user 1 or of user 2; users list MaxAmount kWh at     *)
(* rate 1, buy the MaxAmount kWh of any listing id, cancel any listing id, *)
(* ask who they are, view the balances of any address (both balance reads  *)
(* answered) and read the transactions of any user id.                     *)
(***************************************************************************)
DoorCookies == {0} \cup DOMAIN sessions

DoorRequests ==
    {NewReq("buy", LoadSession(sid).userId, body) :
        sid \in DoorCookies,
        body \in BuyBodies(1..MaxListings,
                           {[t |-> "string", v |-> MaxAmount]}, {FALSE})}
    \cup {NewReq("cancel", LoadSession(sid).userId, [id |-> id]) :
            sid \in DoorCookies, id \in 1..MaxListings}
    \cup {NewReq("create", LoadSession(sid).userId, body) :
            sid \in DoorCookies,
            body \in CreateBodies(1..Len(users), {MaxAmount}, {1}, {0},
                                  {TRUE}, {FALSE})}

DoorArrive == Arrive(1, DoorRequests)

NextDoor ==
    \/ DoorArrive
    \/ DoStart(1)
    \/ LedgerSteps(1)
    \/ \E cookie \in DoorCookies : MeArrive(1, cookie)
    \/ DoMe(1)
    \/ ViewArrive(1, DoorCookies, Addresses)
    \/ DoViewLookup(1)
    \/ DoViewReconcile(1, {[ethOk |-> TRUE, energyOk |-> TRUE]})
    \/ TxsArrive(1, DoorCookies, 1..Len(users))
    \/ DoUserTxs(1)

SpecDoor == InitRace /\ [][NextDoor]_vars

(***************************************************************************)
(* SpecEscrow: the Marketplace contract alone.  Any wallet calls           *)
(* createListing (rate 0 or 1), buyEnergy and cancelListing, with or       *)
(* without an allowance and enough ether.  While buyEnergy waits for the   *)
(* seller's or the buyer's account to take the ether it sends, that        *)
(* account's code runs: any wallet may call createListing and              *)
(* cancelListing in between (buyEnergy itself is nonReentrant), and the    *)
(* send succeeds or fails.                                                 *)
(***************************************************************************)
MarketFrame == UNCHANGED <<users, listings, txs, sessions, nextSid, nextNonce,
                           reqs, marketplaceContract, validated, compared,
                           retired, origAmount, base, batch, lastRead>>

CallCreateListing ==
    /\ market.nextListingId <= MaxOnChain
    /\ \E sender \in Wallets, amountKWh \in 0..MaxAmount,
          ratePerKWh \in {0, 1}, approved \in BOOLEAN :
         market' = createListing(market, sender, amountKWh, ratePerKWh, approved)
    /\ MarketFrame

CallCancelListing ==
    /\ \E sender \in Wallets, listingId \in 1..MaxOnChain :
         market' = cancelListing(market, sender, listingId)
    /\ MarketFrame

CallBuyEnergy ==
    /\ \E sender \in Wallets, listingId \in 1..MaxOnChain,
          amount \in 0..MaxAmount, covers \in BOOLEAN, exceeds \in BOOLEAN :
         market' = buyEnergy(market, sender, listingId, amount, covers, exceeds)
    /\ MarketFrame

SellerReturns ==
    /\ market.call.phase = "seller"
    /\ \E success \in BOOLEAN : market' = buyEnergyUpdate(market, success)
    /\ MarketFrame

RefundReturns ==
    /\ market.call.phase = "refund"
    /\ \E refundSuccess \in BOOLEAN :
         market' = buyEnergyEnd(market, refundSuccess)
    /\ MarketFrame

NextEscrow ==
    \/ CallCreateListing
    \/ CallCancelListing
    \/ CallBuyEnergy
    \/ SellerReturns
    \/ RefundReturns

SpecEscrow == InitAuth /\ [][NextEscrow]_vars

(***************************************************************************)
(* Claims about the ledger.                                                *)
(***************************************************************************)
RECURSIVE SoldUpTo(_, _)
\* the kWh of the first n Transaction rows recorded against listing lid
SoldUpTo(lid, n) ==
    IF n = 0 THEN 0
    ELSE SoldUpTo(lid, n - 1)
         + (IF txs[n].listingId = lid THEN txs[n].amountKWh ELSE 0)

Sold(lid) == SoldUpTo(lid, Len(txs))

\* C1: whatever purchases run together against a listing, the kWh of the
\* Transaction rows recorded against it never exceed the amountKWh it was
\* inserted with, and no handler reads or writes a negative amountKWh.
C1_NoOversell ==
    /\ \A lid \in 1..Len(listings) :
         /\ Sold(lid) <= origAmount[lid]
         /\ listings[lid].amountKWh >= 0
    /\ \A r \in Slots : reqs[r].listing.amountKWh >= 0

\* C3: a purchase that supplied no hash and whose external buyEnergy call
\* failed changes no balance and no listing, records no Transaction row and
\* is not answered with success.
C3_AllOrNothing ==
    [][\A r \in Slots :
         (reqs[r].op = "buy" /\ reqs[r].ext = "failed")
            => (Ledger' = Ledger /\ reqs'[r].status # 200)]_vars

\* C4: when two requests that ran together are both answered, the balances,
\* the listings and the Transaction rows are those of running the successful
\* ones one after the other in one of the two orders.
C4_Serializable ==
    (Quiet /\ batch.n <= 2) => Ledger \in SerialResults(base, batch.done)

\* C5: no read sees a purchase of which only some of the writes are made.
C5_AtomicToReaders == lastRead # "partial"

\* C9: a purchase whose buyer is the seller of the listing changes no balance
\* and no listing, records no Transaction row and is not answered with success.
C9_NoSelfPurchase ==
    [][\A r \in Slots :
         (reqs[r].op = "buy" /\ reqs[r].listing.id # 0
            /\ reqs[r].listing.sellerId = reqs[r].uid)
            => (Ledger' = Ledger /\ reqs'[r].status # 200)]_vars

\* C10: a purchase of an amount that is zero or negative changes no balance
\* and no listing, records no Transaction row and is not answered with success.
C10_PositiveAmountOnly ==
    [][\A r \in Slots :
         (reqs[r].op = "buy" /\ reqs[r].pc # "idle"
            /\ parseFloat(reqs[r].body.amount) <= 0)
            => (Ledger' = Ledger /\ reqs'[r].status # 200)]_vars

(***************************************************************************)
(* Claims about sign-in.                                                   *)
(***************************************************************************)
\* C2: a nonce issued to a session validates at most once: under any
\* interleaving of POST /auth/verify requests that present the same message
\* and signature on the same session, no more than one of them succeeds.
C2_NonceValidatesOnce == \A n \in 1..MaxNonce : validated[n] <= 1

\* C6: consuming a nonce is destructive whatever the outcome: once a
\* verification has compared a supplied nonce with the session's nonce, the
\* stored session holds no nonce until GET /auth/nonce issues a new one.
C6_NonceConsumedOnAttempt ==
    \A sid \in compared :
        sid \in DOMAIN sessions => sessions[sid].nonce = 0

C8_OneUserPerAddress ==
    \A i \in DOMAIN users, j \in DOMAIN users :
        i # j => toLowerCase(users[i].walletAddress)
                   # toLowerCase(users[j].walletAddress)

(***************************************************************************)
(* Claims about purchases, cancellations and listings, one request at a    *)
(* time.  When no request is in flight, `base` is the ledger the last      *)
(* request found and `batch.done` names it if it wrote anything.           *)
(***************************************************************************)
\* the request that was answered last made writes and was an `op`
Did(op) == Quiet /\ Len(batch.done) = 1 /\ batch.done[1].op = op

\* the purchase in slot r cannot be made on the ledger as it is: its listing
\* is missing or inactive, holds less than the amount, or costs more than
\* the buyer's ethBalance
BadPurchase(r) ==
    LET listing == getEnergyListing(Ledger, reqs[r].body.listingId)
        buyer == getUser(Ledger, reqs[r].uid)
        amount == parseFloat(reqs[r].body.amount)
    IN  \/ listing.id = 0
        \/ ~listing.isActive
        \/ amount > listing.amountKWh
        \/ buyer.ethBalance < amount * listing.ratePerKWh

\* C11: a purchase whose listing is missing or inactive, whose amount is
\* greater than the listing's amountKWh or whose cost is greater than the
\* buyer's ethBalance never gets past the checks: each step of it leaves
\* every User, Listing and Transaction as it was, and it is answered with an
\* error (400 or 404).
C11_BadPurchaseRejected ==
    [][\A r \in Slots :
         (/\ reqs[r].op = "buy"
          /\ reqs[r].pc \in {"b_start", "b_buyer", "b_seller", "b_ext", "b_tx"}
          /\ BadPurchase(r)
          /\ reqs'[r] # reqs[r])
            => /\ Ledger' = Ledger
               /\ reqs'[r].pc \in {"idle", "b_buyer", "b_seller"}
               /\ reqs'[r].pc = "idle" => reqs'[r].status \in {400, 404}]_vars

\* a purchase was answered 400 with a listing on offer and nothing sold
C11_Witness ==
    /\ reqs[1].op = "buy" /\ reqs[1].pc = "idle" /\ reqs[1].status = 400
    /\ Len(listings) > 0
    /\ txs = <<>>

\* C12: a successful purchase of `amount` at cost amount * ratePerKWh takes
\* the cost from the buyer's ethBalance and adds the amount to the buyer's
\* energyBalance, adds the cost to the seller's ethBalance and totalEarnings
\* and, when something remains, leaves the listing active with amountKWh
\* less the amount and totalValue the remainder times the rate.
C12_PurchaseEffects ==
    Did("buy") =>
        LET e == batch.done[1]
            amount == parseFloat(e.body.amount)
            was == base.listings[e.body.listingId]
            now == listings[e.body.listingId]
            totalCost == amount * was.ratePerKWh
            remainder == was.amountKWh - amount
        IN  /\ users[e.uid].ethBalance = base.users[e.uid].ethBalance - totalCost
            /\ users[e.uid].energyBalance
                   = base.users[e.uid].energyBalance + amount
            /\ users[was.sellerId].ethBalance
                   = base.users[was.sellerId].ethBalance + totalCost
            /\ users[was.sellerId].totalEarnings
                   = base.users[was.sellerId].totalEarnings + totalCost
            /\ remainder > 0 =>
                   /\ now.amountKWh = remainder
                   /\ now.totalValue = remainder * was.ratePerKWh
                   /\ now.isActive

\* C13: a purchase of all that remains of a listing leaves the listing with
\* amountKWh = 0 and isActive = false.
C13_SoldOutListing ==
    Did("buy") =>
        LET e == batch.done[1] IN
        parseFloat(e.body.amount) = base.listings[e.body.listingId].amountKWh
            => /\ listings[e.body.listingId].amountKWh = 0
               /\ ~listings[e.body.listingId].isActive

\* C14: an inactive listing is terminal: no step of any request, under any
\* interleaving, changes its amountKWh or totalValue, makes it active again
\* or records a Transaction against it.
C14_InactiveIsTerminal ==
    [][\A i \in 1..Len(listings) :
         ~listings[i].isActive =>
            /\ listings'[i] = listings[i]
            /\ Len(txs') > Len(txs) => txs'[Len(txs')].listingId # i]_vars

\* C15: every User has energyBalance >= 0, ethBalance >= 0 and
\* totalEarnings >= 0 in every reachable state.
C15_BalancesNonNegative ==
    \A i \in 1..Len(users) :
        /\ users[i].energyBalance >= 0
        /\ users[i].ethBalance >= 0
        /\ users[i].totalEarnings >= 0

\* C16: a cancellation by a session whose user is not the listing's seller
\* is answered 403 by its first step and changes nothing, whatever seller
\* the request body names.
C16_CancelByOwnerOnly ==
    [][\A r \in Slots :
         (/\ reqs[r].op = "cancel"
          /\ reqs[r].pc = "c_start"
          /\ getEnergyListing(Ledger, reqs[r].body.id).id # 0
          /\ getEnergyListing(Ledger, reqs[r].body.id).sellerId # reqs[r].uid
          /\ reqs'[r] # reqs[r])
            => /\ Ledger' = Ledger
               /\ reqs'[r].pc = "idle"
               /\ reqs'[r].status = 403]_vars

\* a cancellation was answered 403 and the listing is still on offer
C16_Witness ==
    /\ reqs[1].op = "cancel" /\ reqs[1].pc = "idle" /\ reqs[1].status = 403
    /\ \E i \in 1..Len(listings) : listings[i].isActive

\* C17: a successful cancellation by the seller leaves the listing with
\* isActive = false and amountKWh = 0.
C17_CancelledListing ==
    Did("cancel") =>
        /\ ~listings[batch.done[1].body.id].isActive
        /\ listings[batch.done[1].body.id].amountKWh = 0

\* C18: a listing request with amountKWh <= 0, with ratePerKWh <= 0 or for
\* more than the seller's energyBalance records no Listing, changes nothing
\* else and is not answered with success.
C18_BadListingRejected ==
    [][\A r \in Slots :
         (/\ reqs[r].op = "create"
          /\ reqs[r].pc # "idle"
          /\ \/ reqs[r].body.amountKWh <= 0
             \/ reqs[r].body.ratePerKWh <= 0
             \/ getUser(Ledger, reqs[r].body.sellerId).energyBalance
                   < reqs[r].body.amountKWh)
            => (Ledger' = Ledger /\ reqs'[r].status # 200)]_vars

\* C19: every Listing that a listing request records has totalValue equal to
\* its amountKWh times its ratePerKWh, whatever the request body carries.
C19_TotalValueIsProduct ==
    [][Len(listings') > Len(listings) =>
         LET new == listings'[Len(listings')]
         IN  new.totalValue = new.amountKWh * new.ratePerKWh]_vars

\* C20: every listing that a successful listing request records is active,
\* so that the active listings read right afterwards include it.
C20_NewListingIsActive ==
    [][Len(listings') > Len(listings) =>
         Len(listings') \in getActiveEnergyListings(Ledger')]_vars

C23_CompletedMeansSettled ==
    \A i \in 1..Len(txs) :
        txs[i].status = "completed"
        => txs[i].blockchainTxHash \in {"chain", "client"}

C30_IdentityFromSession ==
    [][\A r \in Slots :
          /\ (reqs[r].pc = "l_insert" /\ Len(listings') > Len(listings))
             => listings'[Len(listings')].sellerId = reqs[r].uid
          /\ (reqs[r].pc = "b_tx" /\ Len(txs') > Len(txs))
             => txs'[Len(txs')].buyerId = reqs[r].uid]_vars

\* a purchase was recorded for the session's user though its body named
\* the other user as the buyer
C30_Witness ==
    /\ reqs[1].pc = "b_updBuyer"
    /\ reqs[1].body.buyerId # reqs[1].uid
    /\ txs[Len(txs)].buyerId = reqs[1].uid

(***************************************************************************)
(* Claims about verification, first logins, reconciliation and logout.     *)
(***************************************************************************)
\* C22: a reconciliation in which a balance read fails or the balance
\* source is not configured leaves the stored balances as they were, and
\* the login goes on.
C22_FailedReadKeepsBalances ==
    [][\A r \in Slots :
          (reqs[r].pc = "v_reconcile" /\ reqs'[r].ext = "failed")
          => /\ users' = users
             /\ reqs'[r].pc = "v_regen"]_vars

\* the step in which the verification of slot r is checked
AtChecks(r) == reqs[r].pc = "v_start" /\ reqs'[r].pc # "v_start"

DomainError == "Invalid domain in SIWE message"

FailsDomain(m) == m.domain # HostDomain
FailsUri(m) == m.uri # HostUri
FailsChain(m) == m.chainId # SEPOLIA
FailsNonce(session, m) == m.nonce # session.nonce
FailsSignature(body) ==
    \/ body.signature.kind # "by"
    \/ body.signature.signer # body.message.address.key

\* the answers of the earliest check that the request fails, in the order
\* domain, URI, chain id, nonce, signature; no answer is shared by two checks
EarliestFailure(session, body) ==
    IF FailsDomain(body.message) THEN {DomainError}
    ELSE IF FailsUri(body.message) THEN {"Invalid URI in SIWE message"}
    ELSE IF FailsChain(body.message)
    THEN {"Invalid chain ID, must be Sepolia (11155111)"}
    ELSE IF FailsNonce(session, body.message)
    THEN {"Invalid nonce", "No nonce found, please request a new one"}
    ELSE IF FailsSignature(body)
    THEN {"Invalid signature", "Authentication failed",
          "Missing message or signature"}
    ELSE {}

\* the request goes on when no check fails, and is answered by the earliest
\* failing check otherwise
AnsweredInOrder(r) ==
    LET failure == EarliestFailure(LoadSession(reqs[r].sid), reqs[r].body)
    IN  IF failure = {} THEN reqs'[r].pc = "v_lookup"
        ELSE reqs'[r].pc = "idle" /\ reqs'[r].err \in failure

C27_FirstLoginCreates ==
    [][\A r \in Slots :
          (reqs[r].pc = "v_create" /\ Len(users') > Len(users))
          => LET user == users'[Len(users')] IN
             /\ user.energyBalance = INITIAL_GRANT
             /\ user.ethBalance = 0
             /\ user.totalEarnings = 0
             /\ user.isNewUser
             /\ \A i \in 1..Len(users) :
                  toLowerCase(users[i].walletAddress)
                  # toLowerCase(user.walletAddress)]_vars

\* C28: whatever the mint does, the step that creates the User leaves the
\* request on its way to the session binding with the User as created, and
\* a login whose mint failed ends with the session bound to that User and
\* the answer 200.
C28_MintFailureTolerated ==
    [][\A r \in Slots :
          /\ (reqs[r].pc = "v_create" /\ Len(users') > Len(users))
             => /\ reqs'[r].pc = "v_regen"
                /\ reqs'[r].user = users'[Len(users')]
                /\ reqs'[r].user.energyBalance = INITIAL_GRANT
          /\ (/\ reqs[r].pc = "v_save"
              /\ reqs'[r].pc # "v_save"
              /\ reqs[r].txHash = "mock"
              /\ reqs[r].ext = "failed")
             => /\ reqs'[r].status = 200
                /\ reqs[r].sid \in DOMAIN sessions'
                /\ sessions'[reqs[r].sid].userId = reqs[r].user.id
                /\ users'[reqs[r].user.id] = reqs[r].user]_vars

\* the mint of a new user's first login failed, the User is in the table
\* with the grant and the request is about to bind the session
C28_Witness ==
    /\ reqs[1].pc = "v_save"
    /\ reqs[1].txHash = "mock"
    /\ reqs[1].ext = "failed"
    /\ getUser(Ledger, reqs[1].user.id).energyBalance = INITIAL_GRANT

\* C29: a session identifier that logout removed from the store has no
\* signed-in session afterwards, and a request that presents it to
\* GET /api/auth/me is answered 401.
C29_LogoutEndsSession ==
    [][\A sid \in 1..MaxSid :
          (sid < nextSid /\ sid \notin DOMAIN sessions /\ sid \notin retired)
          => /\ sid \in DOMAIN sessions' => sessions'[sid].userId = 0
             /\ \A r \in Slots :
                  (/\ reqs[r].pc = "m_start"
                   /\ reqs'[r].pc # "m_start"
                   /\ reqs[r].sid = sid)
                  => reqs'[r].status = 401]_vars

(***************************************************************************)
(* Claims about terminal listings, replays and the rows a request leaves   *)
(* alone.                                                                  *)
(***************************************************************************)
\* C31: no step of a listing, purchase or cancellation request, under any
\* interleaving, turns the isActive of a listing from false to true.
C31_NeverReactivated ==
    [][\A i \in 1..Len(listings) :
         ~listings[i].isActive => ~listings'[i].isActive]_vars

\* a cancellation and then a purchase of the same listing were answered
\* while both were in flight: the purchase wrote the rest of the amount
\* into the listing after it was deactivated, and the listing is inactive
C31_Witness ==
    /\ Quiet
    /\ Len(batch.done) = 2
    /\ batch.done[1].op = "cancel"
    /\ batch.done[2].op = "buy"
    /\ batch.done[2].body.listingId = batch.done[1].body.id
    /\ listings[batch.done[1].body.id].amountKWh
          < base.listings[batch.done[1].body.id].amountKWh
    /\ ~listings[batch.done[1].body.id].isActive

\* C32: a cancellation of a listing that is already inactive changes no
\* User, Listing or Transaction and is answered with an error.
C32_InactiveCancelRejected ==
    [][\A r \in Slots :
         (/\ reqs[r].op = "cancel"
          /\ reqs[r].pc # "idle"
          /\ getEnergyListing(Ledger, reqs[r].body.id).id # 0
          /\ ~getEnergyListing(Ledger, reqs[r].body.id).isActive
          /\ reqs'[r] # reqs[r])
            => /\ Ledger' = Ledger
               /\ reqs'[r].pc = "idle" => reqs'[r].status \in {400, 403, 404}]_vars

\* the rows of a table that carry the reference the caller supplied
WithClientHash(rows) ==
    {i \in 1..Len(rows) : rows[i].blockchainTxHash = "client"}

\* C33: a request replayed with the transaction hash an earlier request
\* already brought records nothing more: at most one Listing and at most one
\* Transaction carry the hash the caller supplied.
C33_ReplayIdempotent ==
    /\ Cardinality(WithClientHash(listings)) <= 1
    /\ Cardinality(WithClientHash(txs)) <= 1

\* the address a reconciling request asked about: the one of the path of a
\* balance view, the one of the signed message of a verification
Queried(l) == IF l.op = "view" THEN l.body.walletAddress
              ELSE l.body.message.address

\* the step in which the request of slot r reconciles
Reconciles(r) ==
    /\ reqs[r].pc \in {"v_reconcile", "u_reconcile"}
    /\ reqs'[r].pc # reqs[r].pc

\* C34: the step of a balance view or of a verification that reconciles
\* writes to the one User whose walletAddress is the address asked about,
\* and to its ethBalance and energyBalance only: every other field of that
\* User, every other User, every Listing and every Transaction stay as
\* they were.
C34_ReconcileFrame ==
    [][\A r \in Slots :
          Reconciles(r) =>
            LET id == reqs[r].user.id IN
            /\ users[id].walletAddress = Queried(reqs[r])
            /\ DOMAIN users' = DOMAIN users
            /\ \A i \in DOMAIN users : i # id => users'[i] = users[i]
            /\ \A f \in DOMAIN users[id] \ {"ethBalance", "energyBalance"} :
                  users'[id][f] = users[id][f]
            /\ listings' = listings
            /\ txs' = txs]_vars

\* a balance view has overwritten the balances of user 1, who keeps the
\* earnings of the sale, while user 2 holds what the purchase left and the
\* listing and the Transaction are on record
C34_Witness ==
    /\ reqs[1].op = "view" /\ reqs[1].status = 200
    /\ users[1].ethBalance = FundedEth
    /\ users[1].totalEarnings = ViewLedger.users[1].totalEarnings
    /\ users[1].totalEarnings > 0
    /\ users[2] = ViewLedger.users[2]
    /\ Len(listings) > 0
    /\ Len(txs) > 0

\* C35: no step of a listing request changes a User, a Transaction or a
\* Listing on record; the step that is answered 200 adds one Listing row and
\* every other step adds none.
C35_CreateMovesNoBalance ==
    [][\A r \in Slots :
          (reqs[r].op = "create" /\ reqs[r].pc # "idle" /\ reqs'[r] # reqs[r])
          => /\ users' = users
             /\ txs' = txs
             /\ \A i \in 1..Len(listings) : listings'[i] = listings[i]
             /\ Len(listings') = Len(listings)
                    + (IF reqs'[r].status = 200 THEN 1 ELSE 0)]_vars

\* a listing request was answered 200: the seller's listing is on record
\* and every User is as the request found it
C35_Witness ==
    /\ Did("create")
    /\ Len(listings) = Len(base.listings) + 1
    /\ listings[Len(listings)].sellerId = batch.done[1].uid
    /\ listings[Len(listings)].amountKWh > 0
    /\ users = base.users

\* the request passes the presence checks and the five checks on the session
\* it came with
PassesChecks(session, body) ==
    /\ body.signature.kind # "missing"
    /\ session.nonce # 0
    /\ parseSiweMessage(body.message).format = "siwe"
    /\ EarliestFailure(session, body) = {}

\* slot r enters position pc in this step
Enters(r, pc) == reqs'[r].pc = pc /\ reqs[r].pc # pc

RejectedAtChecks(r) == AtChecks(r) /\ reqs'[r].pc = "idle"

\* C37 as stated: a verification that a check rejects creates and changes
\* no User, Listing or Transaction, and the session it came with has no
\* userId afterwards.
C37_FailureLeavesNoUserId ==
    [][\A r \in Slots :
          RejectedAtChecks(r)
          => /\ users' = users /\ listings' = listings /\ txs' = txs
             /\ reqs[r].sid \in DOMAIN sessions'
                  => sessions'[reqs[r].sid].userId = 0]_vars

\* C37: a verification that a check rejects (missing fields, no nonce,
\* parse failure, domain, URI, chain id, nonce, signature) creates and
\* changes no User, Listing or Transaction and leaves the userId of the
\* session it came with as it was: a session without one stays without one.
C37_FailureChangesNothing ==
    [][\A r \in Slots :
          RejectedAtChecks(r)
          => /\ reqs'[r].status \in {400, 401}
             /\ users' = users /\ listings' = listings /\ txs' = txs
             /\ DOMAIN sessions' = DOMAIN sessions
             /\ \A sid \in DOMAIN sessions :
                  sessions'[sid].userId = sessions[sid].userId]_vars

\* a verification with the nonce of a session was rejected for its
\* signature: the session still holds the nonce and has no userId, and
\* the only User is the one the server started with
C37_Witness ==
    /\ reqs[1].op = "verify"
    /\ reqs[1].err = "Invalid signature"
    /\ Len(users) = 1
    /\ \E sid \in DOMAIN sessions :
         /\ sessions[sid].nonce = reqs[1].body.message.nonce
         /\ sessions[sid].userId = 0

\* the positions of a request that reached its handler and has made no
\* storage or external call yet
AtTheDoor == {"b_start", "c_start", "l_start", "m_start", "u_start", "t_start"}

\* the userId of the session the request of slot r came with
SessionUserId(r) == IF reqs[r].op = "me" THEN LoadSession(reqs[r].sid).userId
                    ELSE reqs[r].uid

\* C38: the first step of a request to one of the six routes behind
\* requireAuth, on a session without a userId, answers it 401 whatever the
\* tables hold and whatever the request names, and leaves the tables and
\* the session store as they were.
C38_NoSessionNoEntry ==
    [][\A r \in Slots :
          (/\ reqs[r].pc \in AtTheDoor
           /\ SessionUserId(r) = 0
           /\ reqs'[r].pc # reqs[r].pc)
          => /\ reqs'[r].pc = "idle"
             /\ reqs'[r].status = 401
             /\ Ledger' = Ledger
             /\ sessions' = sessions]_vars

\* a cancellation without a session was answered 401 though no listing has
\* the id it named
C38_Witness ==
    /\ reqs[1].op = "cancel" /\ reqs[1].pc = "idle" /\ reqs[1].status = 401
    /\ listings = <<>>

RECURSIVE SumOver(_, _, _)
\* the sum of field f over the first n rows of the users table u
SumOver(u, f, n) == IF n = 0 THEN 0 ELSE SumOver(u, f, n - 1) + u[n][f]

Total(u, f) == SumOver(u, f, Len(u))

\* C39: when the requests that ran together are all answered, the sum of
\* ethBalance and the sum of energyBalance over all users are what they
\* were when the first of them began.
C39_PurchasesConserveTotals ==
    (Quiet /\ batch.n <= 2)
    => /\ Total(users, "ethBalance") = Total(base.users, "ethBalance")
       /\ Total(users, "energyBalance") = Total(base.users, "energyBalance")

RECURSIVE ListedUpTo(_, _)
\* the sum of amountKWh over the first n listings of the contract
ListedUpTo(c, n) ==
    IF n = 0 THEN 0 ELSE ListedUpTo(c, n - 1) + c.listings[n].amountKWh

\* C40: whenever no call of the Marketplace contract is in progress, the
\* EnergyToken balance of the contract equals the sum of amountKWh over
\* all its listings.
C40_EscrowMatchesListings ==
    market.call.phase = "none"
    => market.token[This] = ListedUpTo(market, Len(market.listings))

\* part of a listing was bought and the rest of it is what the contract
\* holds
C40_Witness ==
    /\ market.call.phase = "none"
    /\ \E i \in 1..Len(market.listings) :
         /\ market.listings[i].active
         /\ market.listings[i].amountKWh = MaxAmount - 1
         /\ market.token[market.listings[i].seller] = 0
    /\ market.token[This] > 0

====
